---- MODULE Spec2Model ----
(***************************************************************************)
(* clawbot: the access-control functions of security/acl.py, the settings  *)
(* they read (config/settings.py) and the executor operations of           *)
(* executor/runner.py that call them.                                      *)
(*                                                                         *)
(* A Python str is a sequence of one-character strings, so that lower(),   *)
(* strip(), split(), startswith() and the `in` operator are computed       *)
(* character by character, as Python computes them.                        *)
(***************************************************************************)
EXTENDS Integers, Sequences, FiniteSets, TLC

VARIABLES
    \* ---- settings (config/settings.py), read-only after load
    TELEGRAM_ADMIN_IDS,   \* str
    BLOCKED_COMMANDS,     \* str
    WORKSPACE_DIR,        \* str
    SANDBOX_ENABLED,      \* bool
    PROHIBITED_PATHS,     \* list[str]
    TUI_REPLY_MAX_LINES,  \* int
    TUI_REPLY_MAX_CHARS,  \* int
    TUI_WAIT_ATTEMPTS,    \* int
    \* ---- the filesystem the process runs on
    symlinks,             \* canonical path of a symbolic link -> its canonical target
    auditFile,            \* the day's audit file: "writable", or "faulty" when appends can fail
    \* ---- one application of a Gatekeeper function
    fn,                   \* "user" | "command" | "path" | "idle"
    arg,                  \* the argument it is applied to
    applied,              \* whether the function has returned
    ret,                  \* what it returned
    \* ---- one call of an executor operation (runner.py)
    pc,                   \* position of the call in progress, "idle" between calls
    req,                  \* the call's arguments
    result,               \* what the call returned, or that it raised
    session,              \* the tmux session: "Absent" | "Plain" | "Alt"
    before_reply,         \* run_tui_command's baseline reply
    output,               \* run_tui_command's loop variable `output`
    current,              \* run_tui_command's loop variable `current`
    polls,                \* poll iterations run_tui_command has started
    timeouts,             \* capture-pane calls of the call that timed out
    tmuxLog,              \* tmux invocations of the call, in order
    execLog,              \* one-shot subprocess invocations of the call
    fsLog,                \* files opened for write / returned for read by the call
    auditLog,             \* AuditRecords the call appended
    accepted,             \* what is_command_allowed / is_path_allowed accepted in the call
    \* ---- the bot's event loop (bot/main.py): the /tui handler tasks
    tasks,                \* handler task -> its position, caller, command and poll count
    keys,                 \* operations on the shared tmux session, with the task that made them
    \* ---- the file SESSION_BINDINGS_FILE (bot/main.py)
    bindings              \* the dict the file holds: str(user_id) -> pinned session id

vars == <<TELEGRAM_ADMIN_IDS, BLOCKED_COMMANDS, WORKSPACE_DIR, SANDBOX_ENABLED,
          PROHIBITED_PATHS, TUI_REPLY_MAX_LINES, TUI_REPLY_MAX_CHARS, TUI_WAIT_ATTEMPTS,
          symlinks, auditFile, fn, arg, applied, ret, pc, req, result,
          session, before_reply, output, current, polls, timeouts, tmuxLog, execLog,
          fsLog, auditLog, accepted, tasks, keys, bindings>>

settingsVars == <<TELEGRAM_ADMIN_IDS, BLOCKED_COMMANDS, WORKSPACE_DIR,
                  SANDBOX_ENABLED, PROHIBITED_PATHS, TUI_REPLY_MAX_LINES,
                  TUI_REPLY_MAX_CHARS, TUI_WAIT_ATTEMPTS, symlinks, auditFile>>
gateVars == <<fn, arg, applied, ret>>
loopVars == <<tasks, keys, bindings>>
callVars == <<pc, req, result, session, before_reply, output, current, polls, timeouts, tmuxLog,
              execLog, fsLog, auditLog, accepted>>

(***************************************************************************)
(* Python str operations                                                   *)
(***************************************************************************)
\* a TLA+ string literal as a Python str
Chars(s) == [i \in 1..Len(s) |-> SubSeq(s, i, i)]

UpperTable == Chars("ABCDEFGHIJKLMNOPQRSTUVWXYZ")
LowerTable == Chars("abcdefghijklmnopqrstuvwxyz")

LowerChar(c) ==
    IF \E i \in 1..26 : UpperTable[i] = c
    THEN LowerTable[CHOOSE i \in 1..26 : UpperTable[i] = c]
    ELSE c

\* str.lower()
str_lower(s) == [i \in 1..Len(s) |-> LowerChar(s[i])]

\* `sub in s`
Contains(sub, s) ==
    \E i \in 0..(Len(s) - Len(sub)) : SubSeq(s, i + 1, i + Len(sub)) = sub

\* s.startswith(p)
StartsWith(s, p) == Len(p) <= Len(s) /\ SubSeq(s, 1, Len(p)) = p

IsSpace(c) == c \in {" ", "\t", "\n", "\r"}

RECURSIVE lstrip(_)
lstrip(s) == IF s # <<>> /\ IsSpace(Head(s)) THEN lstrip(Tail(s)) ELSE s

RECURSIVE rstrip(_)
rstrip(s) ==
    IF s # <<>> /\ IsSpace(s[Len(s)]) THEN rstrip(SubSeq(s, 1, Len(s) - 1)) ELSE s

\* str.strip()
strip(s) == rstrip(lstrip(s))

\* s.split(sep) for a one-character separator: never empty, "" gives [""]
RECURSIVE Split(_, _)
Split(s, sep) ==
    IF \E i \in 1..Len(s) : s[i] = sep
    THEN LET i == CHOOSE k \in 1..Len(s) :
                      s[k] = sep /\ \A j \in 1..(k - 1) : s[j] # sep
         IN  <<SubSeq(s, 1, i - 1)>> \o Split(SubSeq(s, i + 1, Len(s)), sep)
    ELSE <<s>>

\* sep.join(parts)
RECURSIVE Join(_, _)
Join(parts, sep) ==
    IF parts = <<>> THEN <<>>
    ELSE IF Len(parts) = 1 THEN parts[1]
    ELSE parts[1] \o sep \o Join(Tail(parts), sep)

\* [x.strip() for x in parts if x.strip()]
RECURSIVE StripNonEmpty(_)
StripNonEmpty(parts) ==
    IF parts = <<>> THEN <<>>
    ELSE IF strip(Head(parts)) = <<>> THEN StripNonEmpty(Tail(parts))
    ELSE <<strip(Head(parts))>> \o StripNonEmpty(Tail(parts))

Digits == Chars("0123456789")
DigitVal(c) == (CHOOSE i \in 1..10 : Digits[i] = c) - 1

\* int(s) for a string of decimal digits
RECURSIVE ParseInt(_)
ParseInt(s) ==
    IF s = <<>> THEN 0
    ELSE ParseInt(SubSeq(s, 1, Len(s) - 1)) * 10 + DigitVal(s[Len(s)])

RECURSIVE MapInt(_)
MapInt(parts) ==
    IF parts = <<>> THEN <<>> ELSE <<ParseInt(Head(parts))>> \o MapInt(Tail(parts))

Reverse(list) == [i \in 1..Len(list) |-> list[Len(list) + 1 - i]]
Range(list) == {list[i] : i \in DOMAIN list}
AllStr(alphabet, n) == UNION {[1..k -> alphabet] : k \in 0..n}

(***************************************************************************)
(* config/settings.py                                                      *)
(***************************************************************************)
\* Settings.admin_ids
ParseAdminIds(raw) ==
    IF raw = <<>> THEN <<>> ELSE MapInt(StripNonEmpty(Split(raw, ",")))

admin_ids == ParseAdminIds(TELEGRAM_ADMIN_IDS)

\* Settings.blocked_commands
ParseBlocked(raw) ==
    IF raw = <<>> THEN <<>> ELSE StripNonEmpty(Split(raw, ","))

blocked_commands == ParseBlocked(BLOCKED_COMMANDS)

DefaultReplyMaxLines == 40
DefaultReplyMaxChars == 4000
DefaultBlocked == Chars("rm -rf,sudo,nc,ncat")
DefaultProhibited ==
    <<Chars("/System"), Chars("/Users/*/Library"), Chars("/private"), Chars("/etc")>>

(***************************************************************************)
(* security/acl.py                                                         *)
(***************************************************************************)
\* `user_id in settings.admin_ids`
RECURSIVE InList(_, _)
InList(x, list) ==
    IF list = <<>> THEN FALSE
    ELSE IF Head(list) = x THEN TRUE
    ELSE InList(x, Tail(list))

is_user_allowed_strict(user_id) == InList(user_id, admin_ids)

is_user_allowed(user_id) ==
    IF admin_ids = <<>> THEN TRUE ELSE InList(user_id, admin_ids)

\* the for loop of is_command_allowed over a given blocklist
RECURSIVE ScanBlocked(_, _)
ScanBlocked(list, command) ==
    IF list = <<>> THEN TRUE
    ELSE IF Contains(Head(list), str_lower(command)) THEN FALSE
    ELSE ScanBlocked(Tail(list), command)

is_command_allowed_first(command) ==
    blocked_commands = <<>>
        \/ ~Contains(Head(blocked_commands), str_lower(command))

is_command_allowed(command) == ScanBlocked(blocked_commands, command)

(***************************************************************************)
(* os.path and fnmatch, as is_path_allowed uses them (POSIX)               *)
(***************************************************************************)
Slash == <<"/">>
DotDot == <<".", ".">>

\* os.getcwd(): the directory the bot was started in
Cwd == Chars("/srv")

\* os.path.join(a, b)
path_join(a, b) ==
    IF StartsWith(b, Slash) THEN b
    ELSE IF a = <<>> \/ a[Len(a)] = "/" THEN a \o b
    ELSE a \o Slash \o b

\* the component loop of os.path.normpath: ".." is collapsed lexically
RECURSIVE NormComps(_, _, _)
NormComps(comps, new_comps, initial_slashes) ==
    IF comps = <<>> THEN new_comps
    ELSE LET comp == Head(comps)
             rest == Tail(comps)
         IN  IF comp = <<>> \/ comp = <<".">>
             THEN NormComps(rest, new_comps, initial_slashes)
             ELSE IF \/ comp # DotDot
                     \/ (initial_slashes = 0 /\ new_comps = <<>>)
                     \/ (new_comps # <<>> /\ new_comps[Len(new_comps)] = DotDot)
             THEN NormComps(rest, Append(new_comps, comp), initial_slashes)
             ELSE IF new_comps # <<>>
             THEN NormComps(rest, SubSeq(new_comps, 1, Len(new_comps) - 1),
                            initial_slashes)
             ELSE NormComps(rest, new_comps, initial_slashes)

\* os.path.normpath(path)
normpath(path) ==
    IF path = <<>> THEN <<".">>
    ELSE LET initial_slashes ==
                 IF ~StartsWith(path, Slash) THEN 0
                 ELSE IF StartsWith(path, <<"/", "/">>)
                         /\ ~StartsWith(path, <<"/", "/", "/">>) THEN 2
                 ELSE 1
             lead == [i \in 1..initial_slashes |-> "/"]
             out == lead \o Join(NormComps(Split(path, "/"), <<>>, initial_slashes),
                                 Slash)
         IN  IF out = <<>> THEN <<".">> ELSE out

\* os.path.abspath(path): absolute and ".."-collapsed; symbolic links are not read
abspath(path) ==
    normpath(IF StartsWith(path, Slash) THEN path ELSE path_join(Cwd, path))

\* fnmatch.fnmatch(name, pat) for patterns of literals, "*" and "?":
\* the whole name must match, and "*" matches any characters, "/" included
RECURSIVE fnmatch(_, _)
fnmatch(name, pat) ==
    IF pat = <<>> THEN name = <<>>
    ELSE IF Head(pat) = "*"
    THEN \E k \in 0..Len(name) : fnmatch(SubSeq(name, k + 1, Len(name)), Tail(pat))
    ELSE /\ name # <<>>
         /\ (Head(pat) = "?" \/ Head(pat) = Head(name))
         /\ fnmatch(Tail(name), Tail(pat))

\* one iteration's test of the loop over settings.PROHIBITED_PATHS
ProhibitedHit(normalized_path, prohibited) ==
    IF Contains(<<"*">>, prohibited)
    THEN fnmatch(normalized_path, prohibited)
    ELSE StartsWith(normalized_path, prohibited)

\* the loop over settings.PROHIBITED_PATHS: the first hit denies
RECURSIVE ScanProhibited(_, _)
ScanProhibited(normalized_path, list) ==
    IF list = <<>> THEN TRUE
    ELSE IF ProhibitedHit(normalized_path, Head(list)) THEN FALSE
    ELSE ScanProhibited(normalized_path, Tail(list))

is_path_allowed(file_path) ==
    IF ~SANDBOX_ENABLED THEN TRUE
    ELSE LET normalized_path == abspath(file_path)
             workspace == abspath(WORKSPACE_DIR)
         IN  IF StartsWith(normalized_path, workspace) THEN TRUE
             ELSE ScanProhibited(normalized_path, PROHIBITED_PATHS)

(***************************************************************************)
(* The filesystem: canonical (symlink-resolved) paths                      *)
(***************************************************************************)
\* the directory holding `path` ("" stands for the root directory)
Parent(path) ==
    IF path = <<>> THEN <<>>
    ELSE LET cut == CHOOSE k \in 1..Len(path) :
                        path[k] = "/" /\ \A j \in (k + 1)..Len(path) : path[j] # "/"
         IN  SubSeq(path, 1, cut - 1)

\* walk `comps` from the canonical directory `resolved`, following each link met;
\* link targets are canonical, and ".." is the parent of the resolved directory
RECURSIVE Resolve(_, _)
Resolve(resolved, comps) ==
    IF comps = <<>> THEN resolved
    ELSE LET comp == Head(comps)
             cand == resolved \o Slash \o comp
         IN  IF comp = <<>> \/ comp = <<".">> THEN Resolve(resolved, Tail(comps))
             ELSE IF comp = DotDot THEN Resolve(Parent(resolved), Tail(comps))
             ELSE IF cand \in DOMAIN symlinks
             THEN Resolve(IF symlinks[cand] = Slash THEN <<>> ELSE symlinks[cand],
                          Tail(comps))
             ELSE Resolve(cand, Tail(comps))

\* os.path.realpath(path)
realpath(path) ==
    LET full == IF StartsWith(path, Slash) THEN path ELSE path_join(Cwd, path)
        r == Resolve(<<>>, Split(full, "/"))
    IN  IF r = <<>> THEN Slash ELSE r

\* `path` is the directory `root` or lies in its subtree
InsideDir(path, root) ==
    \/ path = root
    \/ root = Slash /\ StartsWith(path, Slash)
    \/ StartsWith(path, root \o Slash)

(***************************************************************************)
(* executor/runner.py: the Output Extractor                                *)
(* Characters that are not ASCII are written as named one-character        *)
(* tokens: "<rec>" is the record glyph U+23FA, "<dot>" U+25CF, "<prompt>"  *)
(* U+276F, "<x>" U+2717, "<star>" U+2722, "<rule>" U+2500, "<esc>" \x1b,   *)
(* "<bel>" \x07.                                                           *)
(***************************************************************************)
NL == <<"\n">>
NoOutput == Chars("(no output)")
OpenMarkers == {<<"<rec>">>, <<"<dot>">>}
CloseMarkers ==
    {<<"<prompt>">>, <<">">>, Chars("esc to interrupt"), <<"<x>">>, <<"<star>">>,
     <<"<rule>">>}

\* s.startswith((m1, m2, ...))
StartsWithAny(s, markers) == \E m \in markers : StartsWith(s, m)

\* str.splitlines() over "\n", "\r" and "\r\n"
RECURSIVE SplitLines(_)
SplitLines(s) ==
    IF s = <<>> THEN <<>>
    ELSE IF \E i \in 1..Len(s) : s[i] \in {"\n", "\r"}
    THEN LET i == CHOOSE k \in 1..Len(s) :
                      s[k] \in {"\n", "\r"} /\ \A j \in 1..(k - 1) : s[j] \notin {"\n", "\r"}
             skip == IF s[i] = "\r" /\ i < Len(s) /\ s[i + 1] = "\n" THEN 2 ELSE 1
         IN  <<SubSeq(s, 1, i - 1)>> \o SplitLines(SubSeq(s, i + skip, Len(s)))
    ELSE <<s>>

\* [ln.rstrip() for ln in text.splitlines()]
RstripLines(text) ==
    LET lines == SplitLines(text) IN [i \in DOMAIN lines |-> rstrip(lines[i])]

\* a scan that keeps the first promoted block
RECURSIVE ScanReply_first(_, _, _)
ScanReply_first(lines, reply_lines, latest_reply) ==
    IF lines = <<>>
    THEN IF latest_reply # <<>> THEN latest_reply ELSE reply_lines
    ELSE LET ln == strip(Head(lines))
             rest == Tail(lines)
         IN  IF StartsWithAny(ln, OpenMarkers)
             THEN ScanReply_first(rest, <<ln>>, latest_reply)
             ELSE IF reply_lines # <<>> /\ StartsWithAny(ln, CloseMarkers)
             THEN ScanReply_first(rest, <<>>,
                                  IF latest_reply # <<>> THEN latest_reply
                                  ELSE reply_lines)
             ELSE IF reply_lines # <<>> /\ ln # <<>>
             THEN ScanReply_first(rest, Append(reply_lines, ln), latest_reply)
             ELSE ScanReply_first(rest, reply_lines, latest_reply)

\* the loop of _extract_tui_reply; at the end an open block is promoted
RECURSIVE ScanReply(_, _, _)
ScanReply(lines, reply_lines, latest_reply) ==
    IF lines = <<>>
    THEN IF reply_lines # <<>> THEN reply_lines ELSE latest_reply
    ELSE LET ln == strip(Head(lines))
             rest == Tail(lines)
         IN  IF StartsWithAny(ln, OpenMarkers)
             THEN ScanReply(rest, <<ln>>, latest_reply)
             ELSE IF reply_lines # <<>> /\ StartsWithAny(ln, CloseMarkers)
             THEN ScanReply(rest, <<>>, reply_lines)
             ELSE IF reply_lines # <<>> /\ ln # <<>>
             THEN ScanReply(rest, Append(reply_lines, ln), latest_reply)
             ELSE ScanReply(rest, reply_lines, latest_reply)

extract_tui_reply(text) ==
    strip(Join(ScanReply(RstripLines(text), <<>>, <<>>), NL))

\* the second loop of _extract_reply_after_prompt: a closing marker breaks
RECURSIVE ScanAfter(_, _)
ScanAfter(lines, reply_lines) ==
    IF lines = <<>> THEN reply_lines
    ELSE LET ln == strip(Head(lines))
             rest == Tail(lines)
         IN  IF StartsWithAny(ln, OpenMarkers) THEN ScanAfter(rest, <<ln>>)
             ELSE IF reply_lines # <<>> /\ StartsWithAny(ln, CloseMarkers)
             THEN reply_lines
             ELSE IF reply_lines # <<>> /\ ln # <<>>
             THEN ScanAfter(rest, Append(reply_lines, ln))
             ELSE ScanAfter(rest, reply_lines)

NeedleLen == 32

\* an extraction anchored on the first line that contains the needle
extract_reply_after_prompt_first(text, command) ==
    LET lines == RstripLines(text)
        stripped == strip(command)
        needle == IF Len(stripped) > NeedleLen
                  THEN SubSeq(stripped, Len(stripped) - NeedleLen + 1, Len(stripped))
                  ELSE stripped
        hits == {i \in DOMAIN lines : needle # <<>> /\ Contains(needle, lines[i])}
    IN  IF hits = {} THEN <<>>
        ELSE LET first_idx == CHOOSE i \in hits : \A j \in hits : i <= j
             IN  strip(Join(ScanAfter(SubSeq(lines, first_idx + 1, Len(lines)), <<>>),
                            NL))

extract_reply_after_prompt(text, command) ==
    LET lines == RstripLines(text)
        stripped == strip(command)
        needle == IF Len(stripped) > NeedleLen
                  THEN SubSeq(stripped, Len(stripped) - NeedleLen + 1, Len(stripped))
                  ELSE stripped
        hits == {i \in DOMAIN lines : needle # <<>> /\ Contains(needle, lines[i])}
    IN  IF hits = {} THEN <<>>
        ELSE LET last_idx == CHOOSE i \in hits : \A j \in hits : j <= i
             IN  strip(Join(ScanAfter(SubSeq(lines, last_idx + 1, Len(lines)), <<>>),
                            NL))

\* seq[-n:] for n > 0
LastN(seq, n) == IF Len(seq) <= n THEN seq ELSE SubSeq(seq, Len(seq) - n + 1, Len(seq))

\* a limiter that keeps the head of the reply
limit_tui_output_head(text) ==
    LET extracted == extract_tui_reply(text)
        lines == RstripLines(text)
        tail == IF TUI_REPLY_MAX_LINES > 0 THEN LastN(lines, TUI_REPLY_MAX_LINES)
                ELSE lines
        reply == IF extracted = <<>> THEN strip(Join(tail, NL)) ELSE extracted
        capped == IF TUI_REPLY_MAX_CHARS > 0 /\ Len(reply) > TUI_REPLY_MAX_CHARS
                  THEN SubSeq(reply, 1, TUI_REPLY_MAX_CHARS)
                  ELSE reply
    IN  IF strip(capped) = <<>> THEN NoOutput ELSE strip(capped)

limit_tui_output(text) ==
    LET extracted == extract_tui_reply(text)
        lines == RstripLines(text)
        tail == IF TUI_REPLY_MAX_LINES > 0 THEN LastN(lines, TUI_REPLY_MAX_LINES)
                ELSE lines
        reply == IF extracted = <<>> THEN strip(Join(tail, NL)) ELSE extracted
        capped == IF TUI_REPLY_MAX_CHARS > 0 /\ Len(reply) > TUI_REPLY_MAX_CHARS
                  THEN LastN(reply, TUI_REPLY_MAX_CHARS)
                  ELSE reply
    IN  IF strip(capped) = <<>> THEN NoOutput ELSE strip(capped)

IsLetter(c) == c \in Range(UpperTable) \cup Range(LowerTable)
IsCsiParam(c) == c \in Range(Digits) \cup {";", "?"}

\* re.sub(r"\x1b\[[0-9;?]*[A-Za-z]", "", s)
RECURSIVE RemoveCSI(_)
RemoveCSI(s) ==
    IF s = <<>> THEN <<>>
    ELSE IF Len(s) >= 2 /\ s[1] = "<esc>" /\ s[2] = "["
    THEN LET stop == CHOOSE j \in 3..(Len(s) + 1) :
                         /\ \A k \in 3..(j - 1) : IsCsiParam(s[k])
                         /\ (j = Len(s) + 1 \/ ~IsCsiParam(s[j]))
         IN  IF stop <= Len(s) /\ IsLetter(s[stop])
             THEN RemoveCSI(SubSeq(s, stop + 1, Len(s)))
             ELSE <<s[1]>> \o RemoveCSI(Tail(s))
    ELSE <<s[1]>> \o RemoveCSI(Tail(s))

\* re.sub(r"\x1b\][^\x07]*\x07", "", s)
RECURSIVE RemoveOSC(_)
RemoveOSC(s) ==
    IF s = <<>> THEN <<>>
    ELSE IF /\ Len(s) >= 2 /\ s[1] = "<esc>" /\ s[2] = "]"
            /\ \E j \in 3..Len(s) : s[j] = "<bel>"
    THEN LET bel == CHOOSE j \in 3..Len(s) :
                        s[j] = "<bel>" /\ \A k \in 3..(j - 1) : s[k] # "<bel>"
         IN  RemoveOSC(SubSeq(s, bel + 1, Len(s)))
    ELSE <<s[1]>> \o RemoveOSC(Tail(s))

\* ch < " " and neither "\n" nor "\t"
IsControl(c) == c \in {"<esc>", "<bel>", "\r"}

\* "".join(ch for ch in s if ch == "\n" or ch == "\t" or ch >= " ")
RECURSIVE DropControl(_)
DropControl(s) ==
    IF s = <<>> THEN <<>>
    ELSE IF IsControl(Head(s)) THEN DropControl(Tail(s))
    ELSE <<Head(s)>> \o DropControl(Tail(s))

\* a stripping that trims before it removes
strip_decoration_unordered(raw) == DropControl(RemoveOSC(RemoveCSI(strip(raw))))

\* the decoration stripping of _capture_tui_raw
strip_decoration(raw) == strip(DropControl(RemoveOSC(RemoveCSI(raw))))

(***************************************************************************)
(* Bounds and input sets                                                   *)
(***************************************************************************)
MaxCmdLen == 3        \* generated commands: up to this many characters
MaxCfgLen == 3        \* generated BLOCKED_COMMANDS values: up to this many characters
MaxAdminCfgLen == 3   \* generated TELEGRAM_ADMIN_IDS values: up to this many characters
MaxDepth == 3         \* generated paths: up to this many components
MaxRawLen == 4        \* generated pane texts: up to this many characters
MaxTextLines == 4     \* generated pane texts: up to this many lines

NoLinks == <<>>

Commands ==
    AllStr({"a", "A", "b"}, MaxCmdLen)
        \cup {Chars("Sudo rm -rf /"), Chars("please rm -rf /tmp"), Chars("ls -la")}

BlockedConfigs ==
    AllStr({"a", "A", "b", ",", " "}, MaxCfgLen)
        \cup {DefaultBlocked, Chars("sudo"), Chars("Sudo"), Chars("rm -rf")}

\* int() raises on anything but digits: a loadable value has digit-only entries
AdminConfigs ==
    {raw \in AllStr({"1", "2", ",", " "}, MaxAdminCfgLen) \cup {Chars("12, 7")} :
        \A i \in DOMAIN ParseBlocked(raw) :
            \A j \in DOMAIN ParseBlocked(raw)[i] :
                ParseBlocked(raw)[i][j] \in Range(Digits)}

UserIds == {1, 2, 7, 11, 12, 21, 22}

PathComps ==
    {Chars("work"), Chars("work2"), Chars("etc"), Chars("Users"), Chars("lnk"), DotDot}

UsersLibrary == Chars("/Users/*/Library")

ScenarioPaths ==
    {Chars("/Users/bob/Library/secrets.txt"), Chars("/work/report.txt"),
     Chars("/Users/a/b/Library"), Chars("/Users/bob/Library"),
     Chars("/etc/work2/x"), Chars("/home/bob/notes.txt")}

PathInputs ==
    {(IF abs THEN Slash ELSE <<>>) \o Join(comps, Slash) :
        abs \in BOOLEAN, comps \in AllStr(PathComps, MaxDepth)} \cup ScenarioPaths

WorkspaceDirs == {Chars("/work"), Chars("/etc/work")}

ProhibitedConfigs ==
    {DefaultProhibited, Reverse(DefaultProhibited), <<UsersLibrary>>, <<>>}

\* filesystems: no link; a link outside the sandbox root into it; a link in it, out
LinkConfigs ==
    {NoLinks,
     Chars("/etc/lnk") :> Chars("/work"),
     Chars("/work/lnk") :> Chars("/etc")}

(***************************************************************************)
(* Applying the Gatekeeper functions to drawn inputs                       *)
(***************************************************************************)
DefaultWaitAttempts == 0

DefaultCaps ==
    /\ TUI_REPLY_MAX_LINES = DefaultReplyMaxLines
    /\ TUI_REPLY_MAX_CHARS = DefaultReplyMaxChars
    /\ TUI_WAIT_ATTEMPTS = DefaultWaitAttempts

FrameIdle ==
    /\ pc = "idle"
    /\ req = [op |-> "none"]
    /\ result = [kind |-> "none"]
    /\ session = "Absent"
    /\ before_reply = <<>>
    /\ output = [kind |-> "none"]
    /\ current = [kind |-> "none"]
    /\ polls = 0
    /\ timeouts = 0
    /\ tmuxLog = <<>>
    /\ execLog = <<>>
    /\ fsLog = <<>>
    /\ auditLog = <<>>
    /\ accepted = {}

\* no handler task exists
NoBindings == [k \in {} |-> <<>>]

\* no handler task exists, and no session_bindings.json
LoopIdle ==
    /\ tasks = <<>>
    /\ keys = <<>>
    /\ bindings = NoBindings

CallIdle ==
    /\ LoopIdle
    /\ FrameIdle


InitGate ==
    /\ CallIdle
    /\ DefaultCaps
    /\ auditFile = "writable"
    /\ WORKSPACE_DIR = Chars("/work")
    /\ SANDBOX_ENABLED = TRUE
    /\ PROHIBITED_PATHS = DefaultProhibited
    /\ symlinks = NoLinks
    /\ applied = FALSE
    /\ ret = FALSE
    /\ \/ /\ fn = "user"
          /\ TELEGRAM_ADMIN_IDS \in AdminConfigs
          /\ BLOCKED_COMMANDS = DefaultBlocked
          /\ arg \in UserIds
       \/ /\ fn = "command"
          /\ TELEGRAM_ADMIN_IDS = <<>>
          /\ BLOCKED_COMMANDS \in BlockedConfigs
          /\ arg \in Commands

CheckUser ==
    /\ fn = "user" /\ ~applied
    /\ applied' = TRUE
    /\ ret' = is_user_allowed(arg)
    /\ UNCHANGED <<fn, arg, settingsVars, callVars, loopVars>>

CheckCommand ==
    /\ fn = "command" /\ ~applied
    /\ applied' = TRUE
    /\ ret' = is_command_allowed(arg)
    /\ UNCHANGED <<fn, arg, settingsVars, callVars, loopVars>>

NextGate == CheckUser \/ CheckCommand

SpecGate == InitGate /\ [][NextGate]_vars

InitPath ==
    /\ CallIdle
    /\ DefaultCaps
    /\ auditFile = "writable"
    /\ TELEGRAM_ADMIN_IDS = <<>>
    /\ BLOCKED_COMMANDS = DefaultBlocked
    /\ WORKSPACE_DIR \in WorkspaceDirs
    /\ SANDBOX_ENABLED \in BOOLEAN
    /\ PROHIBITED_PATHS \in ProhibitedConfigs
    /\ symlinks \in LinkConfigs
    /\ fn = "path"
    /\ arg \in PathInputs
    /\ applied = FALSE
    /\ ret = FALSE

CheckPath ==
    /\ fn = "path" /\ ~applied
    /\ applied' = TRUE
    /\ ret' = is_path_allowed(arg)
    /\ UNCHANGED <<fn, arg, settingsVars, callVars, loopVars>>

NextPath == CheckPath

SpecPath == InitPath /\ [][NextPath]_vars

(***************************************************************************)
(* executor/runner.py: what a call comes to                                *)
(***************************************************************************)
Ret(success, message) == [kind |-> "ret", success |-> success, message |-> message]
Exc(e) == [kind |-> "exc", exc |-> e]
Raised(e) == [kind |-> "raised", exc |-> e]

\* the user-visible texts (the source's are Chinese)
MsgBlocked == Chars("command contains a blocked keyword")
MsgTmuxMissing == Chars("tmux not found, install tmux first")
MsgError == Chars("error during execution")
MsgSendFailed == Chars("sending the command failed")
MsgCaptureTimeout == Chars("TUI capture timed out, retry")
MsgCaptureFailed == Chars("TUI capture failed: ")
MsgStartFailed == Chars("starting the TUI session failed: ")
MsgSessionExists == Chars("TUI session exists")
MsgSessionStarted == Chars("TUI session started")
AuditBlocked == Chars("blocked command")
AuditTmuxMissing == Chars("tmux not found")

\* the environment's answer to one log_command_execution: the append succeeds, or
\* open() raises FileNotFoundError (no LOG_DIR) or another OSError
AuditEnv == {"ok", "enoent", "oserror"}

\* the answers the audit file of this run can give
AuditOutcomes == IF auditFile = "writable" THEN {"ok"} ELSE AuditEnv

\* log_command_execution(user_id, command, success, result) on the audit file `log`
log_command_execution(user_id, command, success, res, env, log) ==
    IF env = "ok"
    THEN [exc |-> "none",
          log |-> Append(log, [user_id |-> user_id, command |-> command,
                               success |-> success, result |-> res])]
    ELSE [exc |-> IF env = "enoent" THEN "FileNotFoundError" ELSE "Exception",
          log |-> log]

\* An audit call outside any try block, then `return out`: when the audit raises,
\* the exception leaves the operation.
AuditThenReturn(user_id, label, out, audit_text, a1, log) ==
    LET au == log_command_execution(user_id, label, out.success, audit_text, a1, log)
    IN  /\ auditLog' = au.log
        /\ result' = IF au.exc = "none" THEN out ELSE Raised(au.exc)
        /\ pc' = "done"

\* except clauses that return their failure without auditing it
Conclude_unaudited(user_id, label, tried, audit_text, a1, a2, handlers, log) ==
    /\ pc' = "done"
    /\ IF tried.kind = "ret"
       THEN /\ auditLog' = log_command_execution(user_id, label, tried.success,
                                                 audit_text, "ok", log).log
            /\ result' = tried
       ELSE /\ auditLog' = log
            /\ result' = Ret(FALSE, handlers[tried.exc].message)

\* The end of a try block: `tried` is the dict it audits and returns, or the
\* exception it raised. An exception of the block or of its audit call goes to the
\* matching except clause (handlers[exc]), which audits and returns a failure; an
\* exception of that second audit call leaves the operation.
Conclude(user_id, label, tried, audit_text, a1, a2, handlers, log) ==
    LET au1 == IF tried.kind = "ret"
               THEN log_command_execution(user_id, label, tried.success, audit_text,
                                          a1, log)
               ELSE [exc |-> tried.exc, log |-> log]
        h == handlers[au1.exc]
        au2 == log_command_execution(user_id, label, FALSE, h.audit, a2, au1.log)
    IN  /\ pc' = "done"
        /\ IF au1.exc = "none"
           THEN auditLog' = au1.log /\ result' = tried
           ELSE /\ auditLog' = au2.log
                /\ result' = IF au2.exc = "none" THEN Ret(FALSE, h.message)
                             ELSE Raised(au2.exc)

(***************************************************************************)
(* executor/runner.py: the tmux session driver                             *)
(***************************************************************************)
\* the environment's answer to one `tmux ...` subprocess
TmuxEnv == {"exit0", "exit1", "timeout", "missing", "oserror"}
TmuxRaises == {"missing", "oserror"}

ErrNoAlt == Chars("no alternate screen")
ErrTmux == Chars("can't find session")
ErrTimeout == Chars("tmux command timed out")

\* _tmux_run: a CompletedProcess, with return code 124 for a timeout, or an
\* exception of subprocess.run
tmux_run(env, stdout, stderr) ==
    IF env = "missing" THEN Exc("FileNotFoundError")
    ELSE IF env = "oserror" THEN Exc("Exception")
    ELSE IF env = "timeout"
    THEN [kind |-> "cp", returncode |-> 124, stdout |-> <<>>, stderr |-> ErrTimeout]
    ELSE IF env = "exit0"
    THEN [kind |-> "cp", returncode |-> 0, stdout |-> stdout, stderr |-> <<>>]
    ELSE [kind |-> "cp", returncode |-> 1, stdout |-> <<>>, stderr |-> stderr]

Call(op, flag, text) == [op |-> op, flag |-> flag, text |-> text]

\* The tmux server's side of the session: "Absent", or running with a pane that has
\* an alternate screen ("Alt") or has none ("Plain"). Which of the two is a property
\* of the program in the pane, settled when the session is created.
PaneModes == {"Plain", "Alt"}

\* a driver that issues new-session a second time when the first one fails
ensure_tui_session_retry(mk, has, created, pipe, born, late) ==
    LET hasCall == <<Call("has-session", "", <<>>)>>
        newCall == <<Call("new-session", "-d", <<>>)>>
        pipeCall == <<Call("pipe-pane", "-o", <<>>)>>
        hasRes == tmux_run(has, <<>>, ErrTmux)
        newRes == tmux_run(created, <<>>, ErrTmux)
        pipeRes == tmux_run(pipe, <<>>, ErrTmux)
        afterNew == IF created = "exit0" \/ (created = "timeout" /\ late)
                    THEN born ELSE session
    IN  IF mk # "ok"
        THEN [calls |-> <<>>, session |-> session, out |-> Exc("Exception")]
        ELSE IF hasRes.kind = "exc"
        THEN [calls |-> hasCall, session |-> session, out |-> hasRes]
        ELSE IF hasRes.returncode = 0
        THEN [calls |-> hasCall \o pipeCall, session |-> session,
              out |-> IF pipeRes.kind = "exc" THEN pipeRes
                      ELSE Ret(TRUE, MsgSessionExists)]
        ELSE IF newRes.kind = "exc"
        THEN [calls |-> hasCall \o newCall, session |-> session, out |-> newRes]
        ELSE IF newRes.returncode # 0
        THEN [calls |-> hasCall \o newCall \o newCall, session |-> afterNew,
              out |-> Ret(FALSE, MsgStartFailed \o strip(newRes.stderr))]
        ELSE [calls |-> hasCall \o newCall \o pipeCall, session |-> afterNew,
              out |-> IF pipeRes.kind = "exc" THEN pipeRes
                      ELSE Ret(TRUE, MsgSessionStarted)]

\* _ensure_tui_session under the answers of os.makedirs, has-session, new-session
\* and pipe-pane; `born` is the pane a new session gets and `late` says whether a
\* timed-out new-session created the session all the same. [calls, session, out]
ensure_tui_session(mk, has, created, pipe, born, late) ==
    LET hasCall == <<Call("has-session", "", <<>>)>>
        newCall == <<Call("new-session", "-d", <<>>)>>
        pipeCall == <<Call("pipe-pane", "-o", <<>>)>>
        hasRes == tmux_run(has, <<>>, ErrTmux)
        newRes == tmux_run(created, <<>>, ErrTmux)
        pipeRes == tmux_run(pipe, <<>>, ErrTmux)
        afterNew == IF created = "exit0" \/ (created = "timeout" /\ late)
                    THEN born ELSE session
    IN  IF mk # "ok"
        THEN [calls |-> <<>>, session |-> session, out |-> Exc("Exception")]
        ELSE IF hasRes.kind = "exc"
        THEN [calls |-> hasCall, session |-> session, out |-> hasRes]
        ELSE IF hasRes.returncode = 0
        THEN [calls |-> hasCall \o pipeCall, session |-> session,
              out |-> IF pipeRes.kind = "exc" THEN pipeRes
                      ELSE Ret(TRUE, MsgSessionExists)]
        ELSE IF newRes.kind = "exc"
        THEN [calls |-> hasCall \o newCall, session |-> session, out |-> newRes]
        ELSE IF newRes.returncode # 0
        THEN [calls |-> hasCall \o newCall, session |-> afterNew,
              out |-> Ret(FALSE, MsgStartFailed \o strip(newRes.stderr))]
        ELSE [calls |-> hasCall \o newCall \o pipeCall, session |-> afterNew,
              out |-> IF pipeRes.kind = "exc" THEN pipeRes
                      ELSE Ret(TRUE, MsgSessionStarted)]

\* has-session exits 0 for a live session only; new-session cannot duplicate one
HasEnv == IF session # "Absent" THEN TmuxEnv \ {"exit1"} ELSE TmuxEnv \ {"exit0"}
NewEnv == IF session # "Absent" THEN TmuxEnv \ {"exit0"} ELSE TmuxEnv

\* whether _capture_tui_raw repeats the capture without the -a flag
CaptureRetries(first) ==
    /\ first.kind = "cp"
    /\ first.returncode # 0
    /\ Contains(ErrNoAlt, first.stderr)

\* a capture without the timeout branch: return code 124 is a failure like any other
capture_tui_raw_generic(first, second, log_tail) ==
    IF first.kind = "exc" THEN first
    ELSE LET res == IF CaptureRetries(first) THEN second ELSE first
         IN  IF res.kind = "exc" THEN res
             ELSE IF res.returncode # 0
             THEN Ret(FALSE, MsgCaptureFailed \o strip(res.stderr))
             ELSE LET out == IF res.stdout # <<>> THEN strip_decoration(res.stdout)
                             ELSE <<>>
                  IN  IF out # <<>> THEN Ret(TRUE, out)
                      ELSE IF strip(log_tail) # <<>> THEN Ret(TRUE, strip(log_tail))
                      ELSE Ret(TRUE, NoOutput)

\* _capture_tui_raw under the results of its one or two capture-pane calls and the
\* tail of the mirror log ("" when there is no log file)
capture_tui_raw(first, second, log_tail) ==
    IF first.kind = "exc" THEN first
    ELSE LET res == IF CaptureRetries(first) THEN second ELSE first
         IN  IF res.kind = "exc" THEN res
             ELSE IF res.returncode = 124 THEN Ret(FALSE, MsgCaptureTimeout)
             ELSE IF res.returncode # 0
             THEN Ret(FALSE, MsgCaptureFailed \o strip(res.stderr))
             ELSE LET out == IF res.stdout # <<>> THEN strip_decoration(res.stdout)
                             ELSE <<>>
                  IN  IF out # <<>> THEN Ret(TRUE, out)
                      ELSE IF strip(log_tail) # <<>> THEN Ret(TRUE, strip(log_tail))
                      ELSE Ret(TRUE, NoOutput)

CaptureCalls(first) ==
    <<Call("capture-pane", "-a", <<>>)>>
        \o (IF CaptureRetries(first) THEN <<Call("capture-pane", "", <<>>)>> ELSE <<>>)

(***************************************************************************)
(* executor/runner.py: run_tui_command, one action per stage of the call   *)
(***************************************************************************)
PollAttempts == 6

\* capture-pane timeouts the environment produces in one call
MaxCaptureTimeouts == 1

Users == {1, 2}
HandlerCommands == {Chars("hi"), Chars("please rm -rf /tmp"), Chars("SUDO ls")}

ScreenOld == <<"<rec>">> \o Chars(" old") \o NL \o <<"<prompt>">> \o Chars(" ")
ScreenNew ==
    <<"<prompt>">> \o Chars(" hi") \o NL \o <<"<rec>">> \o Chars(" new answer")
        \o NL \o Chars("second line") \o NL \o <<"<prompt>">> \o Chars(" ")
ScreenEsc == <<"<esc>">> \o Chars("[1m") \o ScreenOld \o <<"<esc>">> \o Chars("[0m")
Screens == {<<>>, ScreenOld, ScreenNew, ScreenEsc}
LogTails == {<<>>, <<"<rec>">> \o Chars(" from log")}

\* the results a capture-pane call can have whatever the pane is
CaptureTroubles ==
    {tmux_run(env, <<>>, ErrTmux) : env \in {"exit1", "timeout", "missing", "oserror"}}
CaptureScreens == {tmux_run("exit0", s, <<>>) : s \in Screens}

\* `capture-pane -a` reads the alternate screen, and fails on a pane without one
CaptureResults ==
    IF session = "Plain"
    THEN {tmux_run("exit1", <<>>, ErrNoAlt)} \cup (CaptureTroubles \ {tmux_run("exit1", <<>>, ErrTmux)})
    ELSE CaptureScreens \cup CaptureTroubles

\* the second capture and the log tail matter only where _capture_tui_raw reads them
SecondResults(first) ==
    IF CaptureRetries(first) THEN CaptureScreens \cup CaptureTroubles ELSE {first}
ReadsLog(first, second) ==
    LET res == IF first.kind = "cp" /\ CaptureRetries(first) THEN second ELSE first
    IN  res.kind = "cp" /\ res.returncode = 0 /\ strip_decoration(res.stdout) = <<>>
TailsRead(first, second) == IF ReadsLog(first, second) THEN LogTails ELSE {<<>>}

\* how many of the capture-pane calls of one _capture_tui_raw timed out
TimedOut(first, second) ==
    (IF first.kind = "cp" /\ first.returncode = 124 THEN 1 ELSE 0)
        + (IF CaptureRetries(first) /\ second.kind = "cp" /\ second.returncode = 124
           THEN 1 ELSE 0)

TuiLabel(command) == Chars("tui:") \o command

\* the except clauses of run_tui_command
TuiHandlers ==
    [e \in {"FileNotFoundError", "Exception", "none"} |->
        IF e = "FileNotFoundError"
        THEN [audit |-> AuditTmuxMissing, message |-> MsgTmuxMissing]
        ELSE [audit |-> MsgError, message |-> MsgError]]

\* a guard that denies nothing
CommandDenied_never(command) == FALSE

\* the guard of run_tui_command and run_command: `if not is_command_allowed(command)`
CommandDenied(command) == ~is_command_allowed(command)

\* what the Gatekeeper accepted in this call
AcceptedCommand(command) == IF is_command_allowed(command) THEN {command} ELSE {}

\* a call starts with nothing sent to the session and nothing captured
NewCall ==
    /\ tmuxLog' = <<>>
    /\ before_reply' = <<>>
    /\ output' = [kind |-> "none"]
    /\ current' = [kind |-> "none"]
    /\ polls' = 0
    /\ timeouts' = 0

\* run_tui_command up to the try block: the Gatekeeper check
run_tui_command(user_id, command, a1) ==
    /\ req' = [op |-> "run_tui_command", user_id |-> user_id, command |-> command]
    /\ accepted' = AcceptedCommand(command)
    /\ NewCall
    /\ execLog' = <<>>
    /\ fsLog' = <<>>
    /\ IF CommandDenied(command)
       THEN AuditThenReturn(user_id, TuiLabel(command), Ret(FALSE, MsgBlocked),
                            AuditBlocked, a1, <<>>)
       ELSE /\ pc' = "tui_ensure"
            /\ result' = [kind |-> "none"]
            /\ auditLog' = <<>>

\* one call of run_tui_command starts
TuiBegin ==
    /\ pc = "idle"
    /\ \E user_id \in Users, command \in HandlerCommands, a1 \in AuditOutcomes :
        run_tui_command(user_id, command, a1)
    /\ UNCHANGED <<settingsVars, gateVars, loopVars, session>>

\* ensure = _ensure_tui_session()
TuiEnsure ==
    /\ pc = "tui_ensure"
    /\ \E mk \in {"ok", "oserror"}, has \in HasEnv, created \in NewEnv,
          pipe \in TmuxEnv, born \in PaneModes, late \in BOOLEAN, a1 \in AuditOutcomes,
          a2 \in AuditOutcomes :
        LET e == ensure_tui_session(mk, has, created, pipe, born, late)
        IN  /\ tmuxLog' = tmuxLog \o e.calls
            /\ session' = e.session
            /\ IF e.out.kind = "ret" /\ e.out.success
               THEN pc' = "tui_baseline" /\ UNCHANGED <<result, auditLog>>
               ELSE Conclude(req.user_id, TuiLabel(req.command), e.out,
                             IF e.out.kind = "ret" THEN e.out.message ELSE <<>>,
                             a1, a2, TuiHandlers, auditLog)
    /\ UNCHANGED <<settingsVars, gateVars, loopVars, req, before_reply, output, current, polls, timeouts, execLog,
                   fsLog, accepted>>

\* before = _capture_tui_raw(); before_reply = _extract_tui_reply(before["message"])
TuiBaseline ==
    /\ pc = "tui_baseline"
    /\ \E first \in CaptureResults, a2 \in AuditOutcomes :
       \E second \in SecondResults(first) :
       \E log_tail \in TailsRead(first, second) :
        LET before == capture_tui_raw(first, second, log_tail)
        IN  /\ timeouts + TimedOut(first, second) <= MaxCaptureTimeouts
            /\ timeouts' = timeouts + TimedOut(first, second)
            /\ tmuxLog' = tmuxLog \o CaptureCalls(first)
            /\ IF before.kind = "exc"
               THEN /\ Conclude(req.user_id, TuiLabel(req.command), before, <<>>,
                                "ok", a2, TuiHandlers, auditLog)
                    /\ UNCHANGED before_reply
               ELSE /\ before_reply' = extract_tui_reply(before.message)
                    /\ pc' = "tui_send"
                    /\ UNCHANGED <<result, auditLog>>
    /\ UNCHANGED <<settingsVars, gateVars, loopVars, req, session, output, current, polls, execLog, fsLog,
                   accepted>>

\* Enter pressed before the text is typed
SendCalls_enter_first(command) ==
    <<Call("send-keys", "-X cancel", <<>>), Call("send-keys", "C-u", <<>>),
      Call("send-keys", "Enter", <<>>), Call("send-keys", "-l", command)>>

\* the four send-keys calls of run_tui_command, in order
SendCalls(command) ==
    <<Call("send-keys", "-X cancel", <<>>), Call("send-keys", "C-u", <<>>),
      Call("send-keys", "-l", command), Call("send-keys", "Enter", <<>>)>>

\* whether one of the four calls raises, and whether the failure of Enter is audited
SendRaises(envs) == \E i \in 1..4 : envs[i] \in TmuxRaises
SendAudits(envs) == ~SendRaises(envs) /\ envs[4] # "exit0"

\* cancel, C-u, the literal command, Enter; only Enter's return code is read
TuiSend ==
    /\ pc = "tui_send"
    /\ \E envs \in [1..4 -> TmuxEnv] :
       \E a1 \in IF SendAudits(envs) THEN AuditOutcomes ELSE {"ok"} :
       \E a2 \in IF SendRaises(envs) \/ a1 # "ok" THEN AuditOutcomes ELSE {"ok"} :
        LET raising == {i \in 1..4 : envs[i] \in TmuxRaises}
            made == IF raising = {} THEN 4
                    ELSE CHOOSE i \in raising : \A j \in raising : i <= j
            send == tmux_run(envs[4], <<>>, ErrTmux)
            msg == IF strip(send.stderr) # <<>> THEN strip(send.stderr)
                   ELSE MsgSendFailed
        IN  /\ tmuxLog' = tmuxLog \o SubSeq(SendCalls(req.command), 1, made)
            /\ IF raising # {}
               THEN Conclude(req.user_id, TuiLabel(req.command),
                             tmux_run(envs[made], <<>>, <<>>), <<>>, "ok", a2,
                             TuiHandlers, auditLog)
               ELSE IF send.returncode # 0
               THEN Conclude(req.user_id, TuiLabel(req.command), Ret(FALSE, msg), msg,
                             a1, a2, TuiHandlers, auditLog)
               ELSE pc' = "tui_poll" /\ UNCHANGED <<result, auditLog>>
    /\ UNCHANGED <<settingsVars, gateVars, loopVars, req, session, before_reply, output, current, polls, timeouts,
                   execLog, fsLog, accepted>>

\* the reply the polling loop reads off one capture
current_reply(message, command) ==
    IF extract_reply_after_prompt(message, command) # <<>>
    THEN extract_reply_after_prompt(message, command)
    ELSE extract_tui_reply(message)

\* an exit test that forgets the baseline
NewReplySeen_nonempty(captured, reply) == captured.success /\ reply # <<>>

\* the loop's exit test: the capture succeeded and its reply is non-empty and is not
\* the baseline reply
NewReplySeen(captured, reply) ==
    captured.success /\ reply # <<>> /\ reply # before_reply

\* a loop that keeps the first capture
KeptCapture_first(captured) == IF output.kind = "none" THEN captured ELSE output

\* `output = current`: a pass that does not end the loop keeps its capture
KeptCapture(captured) == captured

\* one pass of `for _ in range(6)`
TuiPoll ==
    /\ pc = "tui_poll"
    /\ polls < PollAttempts
    /\ \E first \in CaptureResults, a2 \in AuditOutcomes :
       \E second \in SecondResults(first) :
       \E log_tail \in TailsRead(first, second) :
        LET captured == capture_tui_raw(first, second, log_tail)
            reply == current_reply(captured.message, req.command)
        IN  /\ timeouts + TimedOut(first, second) <= MaxCaptureTimeouts
            /\ timeouts' = timeouts + TimedOut(first, second)
            /\ tmuxLog' = tmuxLog \o CaptureCalls(first)
            /\ polls' = polls + 1
            /\ IF captured.kind = "exc"
               THEN /\ Conclude(req.user_id, TuiLabel(req.command), captured, <<>>,
                                "ok", a2, TuiHandlers, auditLog)
                    /\ UNCHANGED <<output, current>>
               ELSE IF NewReplySeen(captured, reply)
               THEN /\ current' = captured
                    /\ output' = Ret(TRUE, limit_tui_output(reply))
                    /\ pc' = "tui_finish"
                    /\ UNCHANGED <<result, auditLog>>
               ELSE /\ current' = captured
                    /\ output' = KeptCapture(captured)
                    /\ pc' = IF polls + 1 = PollAttempts THEN "tui_finish"
                             ELSE "tui_poll"
                    /\ UNCHANGED <<result, auditLog>>
    /\ UNCHANGED <<settingsVars, gateVars, loopVars, req, session, before_reply, execLog, fsLog,
                   accepted>>

\* after the loop: audit the outcome and return it
TuiFinish ==
    /\ pc = "tui_finish"
    /\ \E a1 \in AuditOutcomes, a2 \in AuditOutcomes :
        LET out == IF output.kind = "none" THEN Ret(TRUE, NoOutput) ELSE output
        IN  Conclude(req.user_id, TuiLabel(req.command), out, out.message, a1, a2,
                     TuiHandlers, auditLog)
    /\ UNCHANGED <<settingsVars, gateVars, loopVars, req, session, before_reply, output, current, polls, timeouts,
                   tmuxLog, execLog, fsLog, accepted>>

(***************************************************************************)
(* executor/runner.py: run_command, pull_file, push_file                   *)
(***************************************************************************)
MsgCliMissing == Chars("Claude CLI not found")
MsgExecTimeout == Chars("execution timed out")
MsgExecFailed == Chars("execution failed: ")
MsgNoOutputOk == Chars("the command succeeded without output")
MsgPathDenied == Chars("path access denied")
MsgNoFile == Chars("file does not exist")
MsgIsDir == Chars("cannot pull a directory")
MsgSize == Chars("file size")
MsgSaved == Chars("file saved to: ")
MsgWriteFailed == Chars("writing the file failed")

SessionIds == {<<>>, Chars("s1")}
Stdouts == {<<>>, Chars(" done") \o NL}
Stderrs == {<<>>, Chars("boom")}

\* the results subprocess.run(cli_args, ...) can have
ExecResults ==
    {[kind |-> "cp", returncode |-> rc, stdout |-> o, stderr |-> e] :
        rc \in {0, 1}, o \in Stdouts, e \in Stderrs}
        \cup {Exc(x) : x \in {"TimeoutExpired", "FileNotFoundError", "Exception"}}

\* the except clauses of run_command
RunHandlers ==
    [e \in {"TimeoutExpired", "FileNotFoundError", "Exception", "none"} |->
        IF e = "TimeoutExpired"
        THEN [audit |-> MsgExecTimeout, message |-> MsgExecTimeout]
        ELSE IF e = "FileNotFoundError"
        THEN [audit |-> MsgCliMissing, message |-> MsgCliMissing]
        ELSE [audit |-> MsgError, message |-> MsgError]]

\* `x or y` on strings
StrOr(x, y) == IF x # <<>> THEN x ELSE y

\* run_command(user_id, command, session_id=..., use_continue=...), called as
\* `request` records
run_command(request, user_id, command, session_id, use_continue, r, a1, a2) ==
    /\ req' = request
    /\ accepted' = AcceptedCommand(command)
    /\ NewCall
    /\ fsLog' = <<>>
    /\ IF CommandDenied(command)
       THEN /\ execLog' = <<>>
            /\ AuditThenReturn(user_id, command, Ret(FALSE, MsgBlocked),
                               AuditBlocked, a1, <<>>)
       ELSE LET output_text == IF r.kind = "cp"
                               THEN strip(StrOr(r.stdout, r.stderr))
                               ELSE <<>>
                tried == IF r.kind # "cp" THEN r
                         ELSE IF r.returncode = 0
                         THEN Ret(TRUE, StrOr(output_text, MsgNoOutputOk))
                         ELSE Ret(FALSE, MsgExecFailed \o strip(r.stderr))
            IN  /\ execLog' = <<[use_continue |-> use_continue,
                                 session_id |-> session_id, prompt |-> command]>>
                /\ Conclude(user_id, command, tried, output_text, a1, a2,
                            RunHandlers, <<>>)

\* one call of run_command
RunCommand ==
    /\ pc = "idle"
    /\ \E user_id \in Users, command \in HandlerCommands, session_id \in SessionIds,
          use_continue \in BOOLEAN, r \in ExecResults, a1 \in AuditOutcomes,
          a2 \in AuditOutcomes :
        run_command([op |-> "run_command", user_id |-> user_id, command |-> command],
                    user_id, command, session_id, use_continue, r, a1, a2)
    /\ UNCHANGED <<settingsVars, gateVars, loopVars, session>>

HandlerPaths ==
    {Chars("/work/a.txt"), Chars("/work/../etc/passwd"), Chars("/etc/hosts"),
     Chars("a.txt")}
Filenames == {Chars("a.txt"), Chars("../etc/x"), Chars("/etc/passwd")}

\* the guard of pull_file and push_file: `if not is_path_allowed(path)`
PathDenied(path) == ~is_path_allowed(path)
AcceptedPath(path) == IF is_path_allowed(path) THEN {path} ELSE {}

\* pull_file(user_id, file_path); exists and isdir are os.path.exists and
\* os.path.isdir of the normalised path
pull_file(user_id, file_path, exists, isdir, a1) ==
    LET label == Chars("pull ") \o file_path
        normalized_path == abspath(file_path)
    IN  /\ req' = [op |-> "pull_file", user_id |-> user_id, command |-> file_path]
        /\ accepted' = AcceptedPath(file_path)
        /\ NewCall
        /\ execLog' = <<>>
        /\ IF PathDenied(file_path)
           THEN /\ fsLog' = <<>>
                /\ AuditThenReturn(user_id, label, Ret(FALSE, MsgPathDenied),
                                   MsgPathDenied, a1, <<>>)
           ELSE IF ~exists
           THEN /\ fsLog' = <<>>
                /\ AuditThenReturn(user_id, label, Ret(FALSE, MsgNoFile),
                                   MsgNoFile, a1, <<>>)
           ELSE IF isdir
           THEN /\ fsLog' = <<>>
                /\ AuditThenReturn(user_id, label, Ret(FALSE, MsgIsDir), MsgIsDir,
                                   a1, <<>>)
           ELSE /\ LET au == log_command_execution(user_id, label, TRUE, MsgSize,
                                                   a1, <<>>)
                   IN  /\ auditLog' = au.log
                       /\ result' = IF au.exc # "none" THEN Raised(au.exc)
                                    ELSE [kind |-> "ret", success |-> TRUE,
                                          file_path |-> normalized_path]
                       /\ fsLog' = IF au.exc # "none" THEN <<>>
                                   ELSE <<[op |-> "read",
                                           path |-> normalized_path]>>
                /\ pc' = "done"

\* one call of pull_file
PullFile ==
    /\ pc = "idle"
    /\ \E user_id \in Users, file_path \in HandlerPaths, exists \in BOOLEAN,
          isdir \in BOOLEAN, a1 \in AuditOutcomes :
        pull_file(user_id, file_path, exists, isdir, a1)
    /\ UNCHANGED <<settingsVars, gateVars, loopVars, session>>

\* the except clause of push_file
PushHandlers ==
    [e \in {"FileNotFoundError", "Exception", "none"} |->
        [audit |-> MsgError, message |-> MsgWriteFailed]]

\* push_file(user_id, file_data, filename); opened is the answer of
\* open(target_path, "wb")
push_file(user_id, filename, opened, a1, a2) ==
    LET label == Chars("push ") \o filename
        target_path == path_join(WORKSPACE_DIR, filename)
        tried == IF opened = "ok" THEN Ret(TRUE, MsgSaved \o target_path)
                 ELSE IF opened = "enoent" THEN Exc("FileNotFoundError")
                 ELSE Exc("Exception")
    IN  /\ req' = [op |-> "push_file", user_id |-> user_id, command |-> filename]
        /\ accepted' = AcceptedPath(target_path)
        /\ NewCall
        /\ execLog' = <<>>
        /\ IF PathDenied(target_path)
           THEN /\ fsLog' = <<>>
                /\ AuditThenReturn(user_id, label, Ret(FALSE, MsgPathDenied),
                                   MsgPathDenied, a1, <<>>)
           ELSE /\ Conclude(user_id, label, tried, MsgSize, a1, a2, PushHandlers,
                         <<>>)
                /\ fsLog' = IF opened = "ok"
                            THEN <<[op |-> "write", path |-> target_path]>>
                            ELSE <<>>

\* one call of push_file
PushFile ==
    /\ pc = "idle"
    /\ \E user_id \in Users, filename \in Filenames,
          opened \in {"ok", "enoent", "oserror"}, a1 \in AuditOutcomes, a2 \in AuditOutcomes :
        push_file(user_id, filename, opened, a1, a2)
    /\ UNCHANGED <<settingsVars, gateVars, loopVars, session>>

(***************************************************************************)
(* The executor: one call at a time (the bot's handlers call these         *)
(* functions synchronously from one event loop)                            *)
(***************************************************************************)
\* the caller takes the result (or the exception); the next call starts afresh
Return ==
    /\ pc = "done"
    /\ pc' = "idle"
    /\ req' = [op |-> "none"]
    /\ result' = [kind |-> "none"]
    /\ accepted' = {}
    /\ auditLog' = <<>>
    /\ execLog' = <<>>
    /\ fsLog' = <<>>
    /\ NewCall
    /\ UNCHANGED <<settingsVars, gateVars, loopVars, session>>

SmallCaps ==
    /\ TUI_REPLY_MAX_LINES = 1
    /\ TUI_REPLY_MAX_CHARS = 8
    /\ TUI_WAIT_ATTEMPTS = 2

Init ==
    /\ CallIdle
    /\ TELEGRAM_ADMIN_IDS = <<>>
    /\ WORKSPACE_DIR = Chars("/work")
    /\ BLOCKED_COMMANDS = DefaultBlocked
    /\ \/ DefaultCaps /\ SANDBOX_ENABLED = TRUE /\ auditFile \in {"writable", "faulty"}
       \/ SmallCaps /\ SANDBOX_ENABLED = FALSE /\ auditFile = "writable"
    /\ PROHIBITED_PATHS = DefaultProhibited
    /\ symlinks = NoLinks
    /\ fn = "none"
    /\ arg = <<>>
    /\ applied = FALSE
    /\ ret = FALSE

Next ==
    \/ TuiBegin
    \/ TuiEnsure
    \/ TuiBaseline
    \/ TuiSend
    \/ TuiPoll
    \/ TuiFinish
    \/ RunCommand
    \/ PullFile
    \/ PushFile
    \/ Return

Spec == Init /\ [][Next]_vars

(***************************************************************************)
(* executor/runner.py: start_tui_session and stop_tui_session, with the    *)
(* operations above                                                        *)
(***************************************************************************)
MsgStopFailed == Chars("stopping failed")
MsgStopped == Chars("TUI session stopped")
AuditStopped == Chars("stopped")

\* kill-session exits 0 for a live session only
KillEnv == IF session # "Absent" THEN TmuxEnv \ {"exit1"} ELSE TmuxEnv \ {"exit0"}

\* start_tui_session: _ensure_tui_session, then the audit of what it returned
start_tui_session(user_id, mk, has, created, pipe, born, late, a1, a2) ==
    LET e == ensure_tui_session(mk, has, created, pipe, born, late)
    IN  /\ req' = [op |-> "start_tui_session", user_id |-> user_id]
        /\ tmuxLog' = e.calls
        /\ session' = e.session
        /\ Conclude(user_id, Chars("tui:start"), e.out,
                    IF e.out.kind = "ret" THEN e.out.message ELSE <<>>,
                    a1, a2, TuiHandlers, <<>>)

\* one call of start_tui_session
StartTuiSession ==
    /\ pc = "idle"
    /\ \E user_id \in Users, mk \in {"ok", "oserror"}, has \in HasEnv, created \in NewEnv,
          pipe \in TmuxEnv, born \in PaneModes, late \in BOOLEAN,
          a1 \in AuditOutcomes, a2 \in AuditOutcomes :
        start_tui_session(user_id, mk, has, created, pipe, born, late, a1, a2)
    /\ UNCHANGED <<settingsVars, gateVars, loopVars, before_reply, output, current, polls,
                   timeouts, execLog, fsLog, accepted>>

\* stop_tui_session: kill-session, the audit of its outcome, the result; `late` says
\* whether a kill-session that timed out ended the session all the same
stop_tui_session(user_id, kill, late, a1, a2) ==
    LET killed == tmux_run(kill, <<>>, ErrTmux)
        msg == IF strip(killed.stderr) # <<>> THEN strip(killed.stderr)
               ELSE MsgStopFailed
        tried == IF killed.kind = "exc" THEN killed
                 ELSE IF killed.returncode # 0 THEN Ret(FALSE, msg)
                 ELSE Ret(TRUE, MsgStopped)
    IN  /\ req' = [op |-> "stop_tui_session", user_id |-> user_id]
        /\ tmuxLog' = <<Call("kill-session", "", <<>>)>>
        /\ session' = IF kill = "exit0" \/ (kill = "timeout" /\ late)
                      THEN "Absent" ELSE session
        /\ Conclude(user_id, Chars("tui:stop"), tried,
                    IF tried.kind # "ret" THEN <<>>
                    ELSE IF tried.success THEN AuditStopped ELSE msg,
                    a1, a2, TuiHandlers, <<>>)

\* one call of stop_tui_session
StopTuiSession ==
    /\ pc = "idle"
    /\ \E user_id \in Users, kill \in KillEnv, late \in BOOLEAN,
          a1 \in AuditOutcomes, a2 \in AuditOutcomes :
        stop_tui_session(user_id, kill, late, a1, a2)
    /\ UNCHANGED <<settingsVars, gateVars, loopVars, before_reply, output, current, polls,
                   timeouts, execLog, fsLog, accepted>>

NextSession == Next \/ StartTuiSession \/ StopTuiSession

SpecSession == Init /\ [][NextSession]_vars

(***************************************************************************)
(* bot/main.py: the /session and /run handlers and the bindings file       *)
(***************************************************************************)
\* str(n) of an int n >= 0
RECURSIVE str_int(_)
str_int(n) ==
    IF n < 10 THEN <<Digits[n + 1]>>
    ELSE str_int(n \div 10) \o <<Digits[(n % 10) + 1]>>

\* s.split(maxsplit=n): the words between runs of whitespace; after n splits the
\* rest of the text is the last item, its trailing whitespace kept
RECURSIVE split_ws(_, _)
split_ws(s, maxsplit) ==
    LET t == lstrip(s)
        ws == {i \in 1..Len(t) : IsSpace(t[i])}
    IN  IF t = <<>> THEN <<>>
        ELSE IF maxsplit = 0 \/ ws = {} THEN <<t>>
        ELSE LET i == CHOOSE x \in ws : \A y \in ws : x <= y
             IN  <<SubSeq(t, 1, i - 1)>>
                     \o split_ws(SubSeq(t, i + 1, Len(t)), maxsplit - 1)

\* s.split(" ", 1) of a text that holds a space
split_space_once(s) ==
    LET i == CHOOSE x \in 1..Len(s) :
                 s[x] = " " /\ \A y \in 1..(x - 1) : s[y] # " "
    IN  <<SubSeq(s, 1, i - 1), SubSeq(s, i + 1, Len(s))>>

\* d.get(k): None is the empty text here, run_command tests `if session_id`
DictGet(d, k) == IF k \in DOMAIN d THEN d[k] ELSE <<>>

\* d[k] = v
DictPut(d, k, v) == [x \in DOMAIN d \cup {k} |-> IF x = k THEN v ELSE d[x]]

\* what reading the bindings file can come to: json.load returns its dict, or
\* open() / json.load raise (unreadable file, text that is not JSON)
ReadEnv == {"ok", "error"}

\* what open(SESSION_BINDINGS_FILE, "w") can come to: the dict is written, or
\* open() raises and the file is left as it was
WriteEnv == {"ok", "refused"}

\* _load_session_bindings(): {} when the file is missing, and {} again when the
\* read raises (`except Exception: return {}`)
load_session_bindings(rd) == IF rd = "ok" THEN bindings ELSE NoBindings

MsgNoAccess == Chars("no access, contact the administrator")
MsgSessionUsage == Chars("usage: /session set <id>")
MsgNeedSessionId == Chars("give a session id")
MsgPinned == Chars("session pinned: ")
MsgNeedCommand == Chars("give a command to run")
MsgRunSessionUsage == Chars("give a session id and a command")
OptSession == Chars("--session ")
OptContinue == Chars("--continue ")

\* message.answer(text) and return
Answer(text) == [kind |-> "answer", text |-> text]

\* a handler that returns without calling the executor
Answered(request, reply) ==
    /\ pc' = "done"
    /\ req' = request
    /\ result' = reply
    /\ accepted' = {}
    /\ auditLog' = <<>>
    /\ execLog' = <<>>
    /\ fsLog' = <<>>
    /\ NewCall

Callers == {1, 2, 12}
SessionTexts ==
    {Chars("/session set A"), Chars("/session set B"), Chars("/session  set   A B  "),
     Chars("/session"), Chars("/session set "), Chars("/session get A")}
RunTexts ==
    {Chars("/run hi"), Chars("/run   SUDO ls "), Chars("/run --session B hi"),
     Chars("/run --session  A   hi there"), Chars("/run --session B"),
     Chars("/run --continue hi"), Chars("/run ")}

\* cmd_session: /session set <id> pins <id> for the caller
CmdSession ==
    /\ pc = "idle"
    /\ \E user_id \in Callers, text \in SessionTexts, rd \in ReadEnv, wr \in WriteEnv :
        LET request == [op |-> "cmd_session", user_id |-> user_id, text |-> text]
            parts == split_ws(text, 2)
            usage == Len(parts) < 3 \/ parts[2] # Chars("set")
            session_id == strip(parts[3])
            loaded == load_session_bindings(rd)
        IN  IF ~is_user_allowed(user_id)
            THEN Answered(request, Answer(MsgNoAccess)) /\ UNCHANGED bindings
            ELSE IF usage
            THEN Answered(request, Answer(MsgSessionUsage)) /\ UNCHANGED bindings
            ELSE IF session_id = <<>>
            THEN Answered(request, Answer(MsgNeedSessionId)) /\ UNCHANGED bindings
            ELSE IF wr = "ok"
            THEN /\ bindings' = DictPut(loaded, str_int(user_id), session_id)
                 /\ Answered(request, Answer(MsgPinned \o session_id))
            ELSE Answered(request, Raised("OSError")) /\ UNCHANGED bindings
    /\ UNCHANGED <<settingsVars, gateVars, tasks, keys, session>>

\* cmd_run: /run [--session <id> | --continue] <command>, a one-shot run
CmdRun ==
    /\ pc = "idle"
    /\ \E user_id \in Callers, text \in RunTexts, rd \in ReadEnv, r \in ExecResults,
          a1 \in AuditOutcomes, a2 \in AuditOutcomes :
        LET request == [op |-> "cmd_run", user_id |-> user_id, text |-> text]
            parts == split_ws(text, 1)
            raw == strip(parts[2])
            after_session == strip(SubSeq(raw, Len(OptSession) + 1, Len(raw)))
            after_continue == strip(SubSeq(raw, Len(OptContinue) + 1, Len(raw)))
            pair == split_space_once(after_session)
        IN  IF ~is_user_allowed(user_id)
            THEN Answered(request, Answer(MsgNoAccess))
            ELSE IF Len(parts) < 2
            THEN Answered(request, Answer(MsgNeedCommand))
            ELSE IF StartsWith(raw, OptSession)
            THEN IF \A i \in 1..Len(after_session) : after_session[i] # " "
                 THEN Answered(request, Answer(MsgRunSessionUsage))
                 ELSE run_command(request, user_id, strip(pair[2]), pair[1], FALSE,
                                  r, a1, a2)
            ELSE IF StartsWith(raw, OptContinue)
            THEN run_command(request, user_id, after_continue, <<>>, TRUE, r, a1, a2)
            ELSE run_command(request, user_id, raw,
                             DictGet(load_session_bindings(rd), str_int(user_id)),
                             FALSE, r, a1, a2)
    /\ UNCHANGED <<settingsVars, gateVars, loopVars, session>>

InitBind ==
    /\ CallIdle
    /\ DefaultCaps
    /\ auditFile = "writable"
    /\ TELEGRAM_ADMIN_IDS \in {<<>>, Chars("1,2")}
    /\ BLOCKED_COMMANDS = DefaultBlocked
    /\ WORKSPACE_DIR = Chars("/work")
    /\ SANDBOX_ENABLED = TRUE
    /\ PROHIBITED_PATHS = DefaultProhibited
    /\ symlinks = NoLinks
    /\ fn = "none"
    /\ arg = <<>>
    /\ applied = FALSE
    /\ ret = FALSE

NextBind ==
    \/ CmdSession
    \/ CmdRun
    \/ Return

SpecBind == InitBind /\ [][NextBind]_vars

(***************************************************************************)
(* bot/main.py: the chat command handlers in front of the executor         *)
(***************************************************************************)
\* int(s) succeeds on a text of decimal digits (signs and spaces are not sent here)
IsInt(s) == s # <<>> /\ \A i \in 1..Len(s) : \E d \in 1..Len(Digits) : Digits[d] = s[i]

Min(a, b) == IF a < b THEN a ELSE b
Max(a, b) == IF a > b THEN a ELSE b

MsgNeedTuiCommand == Chars("give a command for the TUI")
MsgNeedNumber == Chars("the argument must be a number")
MsgNeedMinutes == Chars("the active minutes must be a number")
MsgNeedPath == Chars("give the path of the file to pull")
MsgNeedReply == Chars("reply to a file with /push")
MsgNoSessionsDir == Chars("no local session directory")
MsgNoRunning == Chars("no running session")
MsgNoRecent == Chars("no recently active session")
MsgListFailed == Chars("listing sessions failed")
SessionsDir == Chars("~/.claude/sessions")
ListLimit == 20

\* the lines list_sessions builds for the active sessions it finds, newest first
SessionLines == <<Chars("s1 | hi | updated: 2026-01-01T10"),
                  Chars("s2 | (no title) | updated: 2026-01-01T09")>>

\* what list_sessions finds on disk
ListEnv == {"nodir", "raises", "norunning", "norecent", "found"}

\* list_sessions(limit=..., active_minutes=...), called as `request` records
list_sessions(request, limit, env) ==
    /\ pc' = "done"
    /\ req' = request
    /\ accepted' = {}
    /\ auditLog' = <<>>
    /\ execLog' = <<>>
    /\ NewCall
    /\ fsLog' = IF env = "nodir" THEN <<>> ELSE <<[op |-> "read", path |-> SessionsDir]>>
    /\ result' =
         CASE env = "nodir" -> Ret(FALSE, MsgNoSessionsDir)
           [] env = "raises" -> Ret(FALSE, MsgListFailed)
           [] env = "norunning" -> Ret(TRUE, MsgNoRunning)
           [] env = "norecent" -> Ret(TRUE, MsgNoRecent)
           [] env = "found" ->
                Ret(TRUE, Join(SubSeq(SessionLines, 1,
                                      Min(Len(SessionLines),
                                          Max(1, Min(limit, ListLimit)))), NL))

\* capture_tui_output(user_id, lines=...): _capture_tui, then the audit
capture_tui_output(user_id, first, second, log_tail, a1, a2) ==
    LET raw == capture_tui_raw(first, second, log_tail)
        tried == IF raw.kind = "exc" \/ ~raw.success THEN raw
                 ELSE Ret(TRUE, IF raw.message # <<>> /\ raw.message # NoOutput
                                THEN limit_tui_output(raw.message)
                                ELSE raw.message)
    IN  /\ req' = [op |-> "capture_tui_output", user_id |-> user_id]
        /\ tmuxLog' = CaptureCalls(first)
        /\ Conclude(user_id, Chars("tui:capture"), tried,
                    IF tried.kind = "ret" THEN tried.message ELSE <<>>,
                    a1, a2, TuiHandlers, <<>>)

SessionsTexts ==
    {Chars("/sessions"), Chars("/sessions 1"), Chars("/sessions x"),
     Chars("/sessions 0 60"), Chars("/sessions 2 y")}
TuiTexts == {Chars("/tui hi"), Chars("/tui   SUDO ls "), Chars("/tui")}
CaptureTexts == {Chars("/tui-capture"), Chars("/tui-capture 80"), Chars("/tui-capture x")}
PullTexts == {Chars("/pull /work/a.txt"), Chars("/pull  /etc/hosts "), Chars("/pull")}
Attachments == {"none", "document", "photo", "lost"}
PhotoName == Chars("photo_1.jpg")

\* the first lines of every handler: `if not is_user_allowed(user_id)`, answer, return
Refused(op, user_id) ==
    /\ Answered([op |-> op, user_id |-> user_id], Answer(MsgNoAccess))
    /\ UNCHANGED session

\* the variables start_tui_session, stop_tui_session and capture_tui_output leave
SessionFrame ==
    UNCHANGED <<before_reply, output, current, polls, timeouts, execLog, fsLog, accepted>>

\* cmd_sessions: /sessions [limit [active_minutes]]
CmdSessions ==
    /\ pc = "idle"
    /\ \E user_id \in Callers, text \in SessionsTexts, env \in ListEnv :
        LET request == [op |-> "cmd_sessions", user_id |-> user_id]
            parts == split_ws(text, 2)
        IN  IF ~is_user_allowed(user_id) THEN Refused("cmd_sessions", user_id)
            ELSE /\ UNCHANGED session
                 /\ IF Len(parts) >= 2 /\ ~IsInt(strip(parts[2]))
                    THEN Answered(request, Answer(MsgNeedNumber))
                    ELSE IF Len(parts) = 3 /\ ~IsInt(strip(parts[3]))
                    THEN Answered(request, Answer(MsgNeedMinutes))
                    ELSE list_sessions(request,
                                       IF Len(parts) >= 2 THEN ParseInt(strip(parts[2]))
                                       ELSE 10, env)
    /\ UNCHANGED <<settingsVars, gateVars, loopVars>>

\* cmd_tui: /tui <command>, up to the start of run_tui_command
CmdTui ==
    /\ pc = "idle"
    /\ \E user_id \in Callers, text \in TuiTexts, a1 \in AuditOutcomes :
        LET parts == split_ws(text, 1)
        IN  IF ~is_user_allowed(user_id) THEN Refused("cmd_tui", user_id)
            ELSE /\ UNCHANGED session
                 /\ IF Len(parts) < 2
                    THEN Answered([op |-> "cmd_tui", user_id |-> user_id],
                                  Answer(MsgNeedTuiCommand))
                    ELSE run_tui_command(user_id, strip(parts[2]), a1)
    /\ UNCHANGED <<settingsVars, gateVars, loopVars>>

\* cmd_tui_capture: /tui-capture [lines]
CmdTuiCapture ==
    /\ pc = "idle"
    /\ \E user_id \in Callers, text \in CaptureTexts, first \in CaptureResults,
          a1 \in AuditOutcomes, a2 \in AuditOutcomes :
       \E second \in SecondResults(first) :
       \E log_tail \in TailsRead(first, second) :
        LET parts == split_ws(text, 1)
        IN  IF ~is_user_allowed(user_id) THEN Refused("cmd_tui_capture", user_id)
            ELSE IF Len(parts) = 2 /\ ~IsInt(strip(parts[2]))
            THEN /\ Answered([op |-> "cmd_tui_capture", user_id |-> user_id],
                             Answer(MsgNeedNumber))
                 /\ UNCHANGED session
            ELSE /\ capture_tui_output(user_id, first, second, log_tail, a1, a2)
                 /\ SessionFrame
                 /\ UNCHANGED session
    /\ UNCHANGED <<settingsVars, gateVars, loopVars>>

\* cmd_tui_start: /tui-start
CmdTuiStart ==
    /\ pc = "idle"
    /\ \E user_id \in Callers, mk \in {"ok", "oserror"}, has \in HasEnv, created \in NewEnv,
          pipe \in TmuxEnv, born \in PaneModes, late \in BOOLEAN,
          a1 \in AuditOutcomes, a2 \in AuditOutcomes :
        IF ~is_user_allowed(user_id) THEN Refused("cmd_tui_start", user_id)
        ELSE /\ start_tui_session(user_id, mk, has, created, pipe, born, late, a1, a2)
             /\ SessionFrame
    /\ UNCHANGED <<settingsVars, gateVars, loopVars>>

\* a /tui-stop handler without the caller check
CmdTuiStop_unchecked ==
    /\ pc = "idle"
    /\ \E user_id \in Callers, kill \in KillEnv, late \in BOOLEAN,
          a1 \in AuditOutcomes, a2 \in AuditOutcomes :
        /\ stop_tui_session(user_id, kill, late, a1, a2)
        /\ SessionFrame
    /\ UNCHANGED <<settingsVars, gateVars, loopVars>>

\* cmd_tui_stop: /tui-stop
CmdTuiStop ==
    /\ pc = "idle"
    /\ \E user_id \in Callers, kill \in KillEnv, late \in BOOLEAN,
          a1 \in AuditOutcomes, a2 \in AuditOutcomes :
        IF ~is_user_allowed(user_id) THEN Refused("cmd_tui_stop", user_id)
        ELSE /\ stop_tui_session(user_id, kill, late, a1, a2)
             /\ SessionFrame
    /\ UNCHANGED <<settingsVars, gateVars, loopVars>>

\* cmd_pull: /pull <path>
CmdPull ==
    /\ pc = "idle"
    /\ \E user_id \in Callers, text \in PullTexts, exists \in BOOLEAN, isdir \in BOOLEAN,
          a1 \in AuditOutcomes :
        LET file_path == strip(SubSeq(text, Len(Chars("/pull ")) + 1, Len(text)))
        IN  IF ~is_user_allowed(user_id) THEN Refused("cmd_pull", user_id)
            ELSE /\ UNCHANGED session
                 /\ IF file_path = <<>>
                    THEN Answered([op |-> "cmd_pull", user_id |-> user_id],
                                  Answer(MsgNeedPath))
                    ELSE pull_file(user_id, file_path, exists, isdir, a1)
    /\ UNCHANGED <<settingsVars, gateVars, loopVars>>

\* cmd_push: /push in reply to a document or a photo; "lost" is a download that raises
CmdPush ==
    /\ pc = "idle"
    /\ \E user_id \in Callers, attached \in Attachments, name \in Filenames,
          opened \in {"ok", "enoent", "oserror"}, a1 \in AuditOutcomes,
          a2 \in AuditOutcomes :
        LET request == [op |-> "cmd_push", user_id |-> user_id]
        IN  IF ~is_user_allowed(user_id) THEN Refused("cmd_push", user_id)
            ELSE /\ UNCHANGED session
                 /\ IF attached = "none"
                    THEN Answered(request, Answer(MsgNeedReply))
                    ELSE IF attached = "lost"
                    THEN Answered(request, Answer(MsgError))
                    ELSE push_file(user_id,
                                   IF attached = "photo" THEN PhotoName ELSE name,
                                   opened, a1, a2)
    /\ UNCHANGED <<settingsVars, gateVars, loopVars>>

NextBot ==
    \/ CmdSessions
    \/ CmdSession
    \/ CmdRun
    \/ CmdTui
    \/ TuiEnsure
    \/ TuiBaseline
    \/ TuiSend
    \/ TuiPoll
    \/ TuiFinish
    \/ CmdTuiCapture
    \/ CmdTuiStart
    \/ CmdTuiStop
    \/ CmdPull
    \/ CmdPush
    \/ Return

\* a deployment with one administrator: every other caller is refused
InitBot ==
    /\ CallIdle
    /\ DefaultCaps
    /\ auditFile = "writable"
    /\ TELEGRAM_ADMIN_IDS = Chars("1")
    /\ BLOCKED_COMMANDS = DefaultBlocked
    /\ WORKSPACE_DIR = Chars("/work")
    /\ SANDBOX_ENABLED = TRUE
    /\ PROHIBITED_PATHS = DefaultProhibited
    /\ symlinks = NoLinks
    /\ fn = "none"
    /\ arg = <<>>
    /\ applied = FALSE
    /\ ret = FALSE

SpecBot == InitBot /\ [][NextBot]_vars

(***************************************************************************)
(* security/acl.py: one application of log_command_execution               *)
(***************************************************************************)
AuditLabels == {Chars("hi"), TuiLabel(Chars("hi")), Chars("pull /etc/hosts")}
AuditTexts == {<<>>, AuditBlocked, Chars("done")}
AuditArgs ==
    [user_id : Users, command : AuditLabels, success : BOOLEAN, result : AuditTexts]

InitAudit ==
    /\ CallIdle
    /\ DefaultCaps
    /\ auditFile \in {"writable", "faulty"}
    /\ TELEGRAM_ADMIN_IDS = <<>>
    /\ BLOCKED_COMMANDS = DefaultBlocked
    /\ WORKSPACE_DIR = Chars("/work")
    /\ SANDBOX_ENABLED = TRUE
    /\ PROHIBITED_PATHS = DefaultProhibited
    /\ symlinks = NoLinks
    /\ fn = "audit"
    /\ arg \in AuditArgs
    /\ applied = FALSE
    /\ ret = FALSE

\* log_command_execution(user_id, command, success, result): it returns None, or the
\* exception of open()/write() leaves it
Audit ==
    /\ fn = "audit" /\ ~applied
    /\ applied' = TRUE
    /\ \E env \in AuditOutcomes :
        LET au == log_command_execution(arg.user_id, arg.command, arg.success,
                                        arg.result, env, auditLog)
        IN  /\ auditLog' = au.log
            /\ result' = IF au.exc = "none" THEN [kind |-> "returned"]
                         ELSE Raised(au.exc)
    /\ UNCHANGED <<settingsVars, loopVars, fn, arg, ret, pc, req, session, before_reply, output,
                   current, polls, timeouts, tmuxLog, execLog, fsLog, accepted>>

NextAudit == Audit

SpecAudit == InitAudit /\ [][NextAudit]_vars

(***************************************************************************)
(* executor/runner.py: one application of the decoration stripping         *)
(***************************************************************************)
RawAlphabet == {"<esc>", "[", "]", "<bel>", "m", "1", " ", "\n"}

RawTexts ==
    AllStr(RawAlphabet, MaxRawLen)
        \cup {ScreenOld, ScreenEsc,
              <<"<esc>", "<esc>">> \o Chars("[m[1;2m ok") \o <<"\r", "\n">>,
              <<"<esc>">> \o Chars("]0;title") \o <<"<bel>", "\t">> \o Chars("a b")
                  \o <<"<esc>">> \o Chars("[?25l "),
              <<"<esc>">> \o Chars("]") \o <<"<esc>">> \o Chars("[0m") \o <<"<bel>">>
                  \o Chars(" x")}

InitText ==
    /\ CallIdle
    /\ DefaultCaps
    /\ auditFile = "writable"
    /\ TELEGRAM_ADMIN_IDS = <<>>
    /\ BLOCKED_COMMANDS = DefaultBlocked
    /\ WORKSPACE_DIR = Chars("/work")
    /\ SANDBOX_ENABLED = TRUE
    /\ PROHIBITED_PATHS = DefaultProhibited
    /\ symlinks = NoLinks
    /\ fn = "strip_decoration"
    /\ arg \in RawTexts
    /\ applied = FALSE
    /\ ret = <<>>

\* `if output:` and the four statements under it
StripDecoration ==
    /\ fn = "strip_decoration" /\ ~applied
    /\ applied' = TRUE
    /\ ret' = IF arg # <<>> THEN strip_decoration(arg) ELSE arg
    /\ UNCHANGED <<fn, arg, settingsVars, callVars, loopVars>>

NextText == StripDecoration

SpecText == InitText /\ [][NextText]_vars

(***************************************************************************)
(* executor/runner.py: one application of an Output Extractor function     *)
(***************************************************************************)
\* the lines a pane shows: replies, prompts with and without the echoed command,
\* indented text, an empty line, a divider
LineKinds ==
    {<<"<rec>">> \o Chars(" a"), <<"<dot>">> \o Chars(" b "),
     <<"<prompt>">> \o Chars(" hi"), Chars("  c"), <<>>, <<"<rule>">>}

LongCommand == Chars("summarise the repository layout and list the tests")

PaneTexts ==
    {Join(ls, NL) : ls \in AllStr(LineKinds, MaxTextLines)}
        \cup {ScreenOld, ScreenNew,
              <<"<rec>">> \o Chars(" a") \o <<"\r", "\n">> \o Chars("more")
                  \o <<"\r", "\n">> \o Chars("> ") \o NL,
              <<"<rec>">> \o Chars(" old") \o NL \o <<"<prompt>">> \o Chars(" ")
                  \o LastN(LongCommand, NeedleLen) \o NL \o <<"<rec>">> \o Chars(" ok")
                  \o NL \o Chars("esc to interrupt"),
              Chars("word one two three"),
              Chars("   ")}

ExtractorCommands == {Chars("hi"), Chars("  "), LongCommand}

\* (TUI_REPLY_MAX_LINES, TUI_REPLY_MAX_CHARS) pairs
CapPairs == {<<DefaultReplyMaxLines, DefaultReplyMaxChars>>, <<1, 8>>, <<2, 4>>, <<0, 0>>}

InitExtract ==
    /\ CallIdle
    /\ TUI_WAIT_ATTEMPTS = DefaultWaitAttempts
    /\ auditFile = "writable"
    /\ TELEGRAM_ADMIN_IDS = <<>>
    /\ BLOCKED_COMMANDS = DefaultBlocked
    /\ WORKSPACE_DIR = Chars("/work")
    /\ SANDBOX_ENABLED = TRUE
    /\ PROHIBITED_PATHS = DefaultProhibited
    /\ symlinks = NoLinks
    /\ fn \in {"extract_tui_reply", "extract_reply_after_prompt", "limit_tui_output"}
    /\ arg \in [text : PaneTexts,
                command : IF fn = "extract_reply_after_prompt" THEN ExtractorCommands
                          ELSE {Chars("hi")}]
    /\ \E caps \in IF fn = "limit_tui_output" THEN CapPairs
                   ELSE {<<DefaultReplyMaxLines, DefaultReplyMaxChars>>} :
        /\ TUI_REPLY_MAX_LINES = caps[1]
        /\ TUI_REPLY_MAX_CHARS = caps[2]
    /\ applied = FALSE
    /\ ret = <<>>

ExtractReply ==
    /\ fn = "extract_tui_reply" /\ ~applied
    /\ applied' = TRUE
    /\ ret' = extract_tui_reply(arg.text)
    /\ UNCHANGED <<fn, arg, settingsVars, callVars, loopVars>>

ExtractAfterPrompt ==
    /\ fn = "extract_reply_after_prompt" /\ ~applied
    /\ applied' = TRUE
    /\ ret' = extract_reply_after_prompt(arg.text, arg.command)
    /\ UNCHANGED <<fn, arg, settingsVars, callVars, loopVars>>

LimitOutput ==
    /\ fn = "limit_tui_output" /\ ~applied
    /\ applied' = TRUE
    /\ ret' = limit_tui_output(arg.text)
    /\ UNCHANGED <<fn, arg, settingsVars, callVars, loopVars>>

NextExtract == ExtractReply \/ ExtractAfterPrompt \/ LimitOutput

SpecExtract == InitExtract /\ [][NextExtract]_vars

(***************************************************************************)
(* bot/main.py: the /tui handler tasks of the event loop                   *)
(***************************************************************************)
Tasks == {"t1", "t2"}

\* the part of cmd_tui that runs run_tui_command; there is no await in it
RunStages == {"ensure", "baseline", "cancel", "clear", "literal", "enter", "poll"}

InFlight(t) == tasks[t].pc \in RunStages

\* a loop that hands a handler to a worker thread gets control back at once
LoopFree_threads == TRUE

\* The event loop gets control, and can start or resume a task, only when no
\* handler body is executing: cmd_tui calls run_tui_command as a plain function.
LoopFree == \A t \in Tasks : ~InFlight(t)

InitLoop ==
    /\ FrameIdle
    /\ DefaultCaps
    /\ auditFile = "writable"
    /\ TELEGRAM_ADMIN_IDS \in {<<>>, Chars("1")}
    /\ BLOCKED_COMMANDS = DefaultBlocked
    /\ WORKSPACE_DIR = Chars("/work")
    /\ SANDBOX_ENABLED = TRUE
    /\ PROHIBITED_PATHS = DefaultProhibited
    /\ symlinks = NoLinks
    /\ fn = "none"
    /\ arg = <<>>
    /\ applied = FALSE
    /\ ret = FALSE
    /\ keys = <<>>
    /\ bindings = NoBindings
    /\ \E c \in [Tasks -> {Chars("hi"), Chars("SUDO ls")}] :
        tasks = [t \in Tasks |->
                    [pc |-> "queued", user_id |-> IF t = "t1" THEN 1 ELSE 2,
                     command |-> c[t], polls |-> 0]]

Moved(t, stage) == [tasks EXCEPT ![t].pc = stage]
Did(t, op) == Append(keys, [task |-> t, op |-> op])

\* cmd_tui from its first line to run_tui_command's try block: the checks of
\* is_user_allowed and is_command_allowed; a refusal is answered with an await
TuiHandlerStart(t) ==
    /\ tasks[t].pc = "queued"
    /\ LoopFree
    /\ tasks' = Moved(t, IF is_user_allowed(tasks[t].user_id)
                            /\ ~CommandDenied(tasks[t].command)
                         THEN "ensure" ELSE "awaiting")
    /\ UNCHANGED <<keys, bindings, settingsVars, gateVars, callVars>>

\* the stage after `stage` when its tmux call lets run_tui_command go on
StageAfter(stage) ==
    CASE stage = "ensure" -> "baseline"
      [] stage = "baseline" -> "cancel"
      [] stage = "cancel" -> "clear"
      [] stage = "clear" -> "literal"
      [] stage = "literal" -> "enter"
      [] stage = "enter" -> "poll"

\* one tmux stage of run_tui_command before the poll loop; when the call fails or
\* raises, run_tui_command returns and cmd_tui awaits message.answer
TuiHandlerStage(t) ==
    /\ tasks[t].pc \in RunStages \ {"poll"}
    /\ \E goes_on \in BOOLEAN :
        tasks' = Moved(t, IF goes_on THEN StageAfter(tasks[t].pc) ELSE "awaiting")
    /\ keys' = Did(t, tasks[t].pc)
    /\ UNCHANGED <<bindings, settingsVars, gateVars, callVars>>

\* one poll capture; the loop goes on, or run_tui_command returns and cmd_tui awaits
\* the sending of the reply
TuiHandlerPoll(t) ==
    /\ tasks[t].pc = "poll"
    /\ \E again \in BOOLEAN :
        tasks' = [tasks EXCEPT ![t].polls = @ + 1,
                               ![t].pc = IF again /\ tasks[t].polls + 1 < PollAttempts
                                         THEN "poll" ELSE "awaiting"]
    /\ keys' = Did(t, "poll")
    /\ UNCHANGED <<bindings, settingsVars, gateVars, callVars>>

\* the awaited message.answer completes and cmd_tui returns
TuiHandlerEnd(t) ==
    /\ tasks[t].pc = "awaiting"
    /\ LoopFree
    /\ tasks' = Moved(t, "finished")
    /\ UNCHANGED <<keys, bindings, settingsVars, gateVars, callVars>>

NextLoop ==
    \E t \in Tasks :
        \/ TuiHandlerStart(t)
        \/ TuiHandlerStage(t)
        \/ TuiHandlerPoll(t)
        \/ TuiHandlerEnd(t)

SpecLoop == InitLoop /\ [][NextLoop]_vars

(***************************************************************************)
(* Properties of the Gatekeeper functions                                  *)
(***************************************************************************)
\* C3: commandAllowed returns false iff the lower-cased command contains at least
\* one configured blocked substring as a literal substring; the result does not
\* depend on the order of the blocklist; an empty blocklist allows every command.
C3_BlockedIffSubstring ==
    (fn = "command" /\ applied) =>
        /\ ret = ~(\E i \in DOMAIN blocked_commands :
                      Contains(blocked_commands[i], str_lower(arg)))
        /\ ret = ScanBlocked(Reverse(blocked_commands), arg)
        /\ (blocked_commands = <<>> => ret)

\* a command denied by an entry that is not the first of the blocklist
C3_Witness ==
    /\ fn = "command" /\ applied /\ ~ret
    /\ Len(blocked_commands) >= 2
    /\ ~Contains(blocked_commands[1], str_lower(arg))

\* C4: commandAllowed is case-insensitive: its result is unchanged when the letter
\* case of the command or of a configured blocked substring is changed.
C4_CaseInsensitive ==
    (fn = "command" /\ applied) =>
        /\ ret = ScanBlocked(blocked_commands, str_lower(arg))
        /\ ret = ScanBlocked(ParseBlocked(str_lower(BLOCKED_COMMANDS)), arg)

\* C10: callerAllowed(callerId) is true iff the allow-list is empty or callerId
\* is a member of it.
C10_CallerAllowedIff ==
    (fn = "user" /\ applied) =>
        (ret <=> (admin_ids = <<>> \/ arg \in Range(admin_ids)))

\* a caller admitted as a later member of a non-empty allow-list
C10_Witness ==
    /\ fn = "user" /\ applied /\ ret
    /\ Len(admin_ids) >= 2
    /\ admin_ids[1] # arg

\* the path is_path_allowed decides on, and the sandbox root it compares with
NormalizedArg == abspath(arg)
NormalizedRoot == abspath(WORKSPACE_DIR)
CanonicalArg == realpath(arg)
CanonicalRoot == realpath(WORKSPACE_DIR)
IsWildcard(prohibited) == Contains(<<"*">>, prohibited)

\* C5: with sandboxing enabled, every path whose canonical (absolute,
\* ".."-collapsed, symlink-resolved) form lies inside the sandbox root is allowed.
C5_InsideRootAllowed ==
    (fn = "path" /\ applied /\ SANDBOX_ENABLED
        /\ InsideDir(CanonicalArg, CanonicalRoot)) => ret

\* C6: with sandboxing enabled, a path whose canonical form starts with a
\* prohibited pattern without a wildcard and lies outside the sandbox root is denied.
C6_ProhibitedPrefixDenied ==
    (/\ fn = "path" /\ applied /\ SANDBOX_ENABLED
     /\ ~InsideDir(CanonicalArg, CanonicalRoot)
     /\ \E i \in DOMAIN PROHIBITED_PATHS :
            /\ ~IsWildcard(PROHIBITED_PATHS[i])
            /\ StartsWith(CanonicalArg, PROHIBITED_PATHS[i])) => ~ret

\* the directories `path` lies below
DirsAbove(path) == {SubSeq(path, 1, k - 1) : k \in {j \in 2..Len(path) : path[j] = "/"}}

\* C7: with sandbox root /work and prohibited pattern /Users/*/Library,
\* /Users/bob/Library/secrets.txt is denied and /work/report.txt is allowed; a path
\* below a directory that matches a wildcard prohibited pattern, outside the
\* sandbox root, is denied.
C7_BelowWildcardDenied ==
    (fn = "path" /\ applied /\ SANDBOX_ENABLED) =>
        /\ (/\ WORKSPACE_DIR = Chars("/work")
            /\ UsersLibrary \in Range(PROHIBITED_PATHS)) =>
               /\ arg = Chars("/Users/bob/Library/secrets.txt") => ~ret
               /\ arg = Chars("/work/report.txt") => ret
        /\ (/\ ~InsideDir(NormalizedArg, NormalizedRoot)
            /\ \E i \in DOMAIN PROHIBITED_PATHS, d \in DirsAbove(NormalizedArg) :
                   /\ IsWildcard(PROHIBITED_PATHS[i])
                   /\ fnmatch(d, PROHIBITED_PATHS[i])) => ~ret

\* a glob in which "*" and "?" match characters of one path component only
RECURSIVE GlobSegment(_, _)
GlobSegment(name, pat) ==
    IF pat = <<>> THEN name = <<>>
    ELSE IF Head(pat) = "*"
    THEN \E k \in 0..Len(name) :
            /\ \A j \in 1..k : name[j] # "/"
            /\ GlobSegment(SubSeq(name, k + 1, Len(name)), Tail(pat))
    ELSE /\ name # <<>>
         /\ (Head(pat) = Head(name) \/ (Head(pat) = "?" /\ Head(name) # "/"))
         /\ GlobSegment(Tail(name), Tail(pat))

\* C8: in a wildcard prohibited pattern "*" matches characters of exactly one path
\* component and never a path separator: /Users/a/b/Library is not matched by
\* /Users/*/Library, so every denial rests on a literal prefix or on a
\* single-segment match.
C8_StarOneComponent ==
    (fn = "path" /\ applied /\ SANDBOX_ENABLED /\ ~ret) =>
        \E i \in DOMAIN PROHIBITED_PATHS :
            IF IsWildcard(PROHIBITED_PATHS[i])
            THEN GlobSegment(NormalizedArg, PROHIBITED_PATHS[i])
            ELSE StartsWith(NormalizedArg, PROHIBITED_PATHS[i])

\* C9: pathAllowed is true for every path when sandboxing is disabled; when it is
\* enabled and the path is outside the sandbox root, it is false if at least one
\* prohibited pattern matches, wherever in the list, and true if none matches.
C9_SandboxDecision ==
    (fn = "path" /\ applied) =>
        /\ ~SANDBOX_ENABLED => ret
        /\ (SANDBOX_ENABLED /\ ~InsideDir(NormalizedArg, NormalizedRoot)) =>
               (ret <=> ~(\E i \in DOMAIN PROHIBITED_PATHS :
                             ProhibitedHit(NormalizedArg, PROHIBITED_PATHS[i])))

(***************************************************************************)
(* Properties of the executor operations (Spec)                            *)
(***************************************************************************)
\* the command strings the call typed into the session with send-keys -l
SentTexts ==
    {tmuxLog[i].text : i \in {j \in DOMAIN tmuxLog :
                                tmuxLog[j].op = "send-keys" /\ tmuxLog[j].flag = "-l"}}
CommandOps == {"run_tui_command", "run_command"}
PathOps == {"pull_file", "push_file"}

\* C1: every command string sent to the tmux session with send-keys or passed to
\* the one-shot subprocess, every file opened for write by push_file and every file
\* returned for read by pull_file was accepted by is_command_allowed /
\* is_path_allowed earlier in the same call; without a passing check the call makes
\* no tmux call, starts no subprocess and touches no file.
C1_GatekeeperFirst ==
    /\ req.op \in CommandOps => \A c \in accepted : is_command_allowed(c)
    /\ req.op \in PathOps => \A p \in accepted : is_path_allowed(p)
    /\ SentTexts \subseteq accepted
    /\ \A i \in DOMAIN execLog : execLog[i].prompt \in accepted
    /\ \A i \in DOMAIN fsLog :
        IF fsLog[i].op = "write" THEN fsLog[i].path \in accepted
        ELSE \E p \in accepted : fsLog[i].path = abspath(p)
    /\ accepted = {} => tmuxLog = <<>> /\ execLog = <<>> /\ fsLog = <<>>

\* a run_tui_command that typed its accepted command into the session and returned
C1_Witness ==
    /\ pc = "done"
    /\ req.op = "run_tui_command"
    /\ SentTexts = {req.command}
    /\ accepted = {req.command}
    /\ result.kind = "ret"
    /\ result.success

\* C2: a run_tui_command whose command fails is_command_allowed returns a failure
\* result, makes no tmux call at all and appends exactly one audit record, with
\* success = False.
C2_DeniedRunAudited ==
    (pc = "done" /\ req.op = "run_tui_command" /\ ~is_command_allowed(req.command))
        => /\ tmuxLog = <<>>
           /\ result.kind = "ret"
           /\ ~result.success
           /\ Len(auditLog) = 1
           /\ ~auditLog[1].success

\* a step in which a run_tui_command comes to its end
TuiEnds == pc # "done" /\ pc' = "done" /\ req'.op = "run_tui_command"

\* what run_tui_command has in hand at `return output`
Outcome == IF output.kind = "none" THEN Ret(TRUE, NoOutput) ELSE output

\* C12: every run_tui_command returns a dict with a success flag and a message and
\* never ends with an exception, whatever the tmux calls and the audit calls do; a
\* failing audit call does not replace the result the operation had computed.
C12_AlwaysStructured ==
    [][TuiEnds =>
        /\ result'.kind = "ret"
        /\ result'.success \in BOOLEAN
        /\ pc = "tui_finish" => result' = Outcome]_vars

\* C13: with a writable audit file, every run_tui_command and every run_command
\* appends exactly one audit record, whose success flag is that of the returned
\* result; so every failure path appends a record with success = False.
C13_OneRecordPerCall ==
    /\ (pc \notin {"idle", "done"} /\ auditFile = "writable") => auditLog = <<>>
    /\ (pc = "done" /\ req.op \in CommandOps /\ auditFile = "writable")
        => /\ result.kind = "ret"
           /\ Len(auditLog) = 1
           /\ auditLog[1].success = result.success
           /\ auditLog[1].user_id = req.user_id

\* a run_tui_command that found no tmux binary: one record, success = False
C13_Witness ==
    /\ pc = "done"
    /\ req.op = "run_tui_command"
    /\ auditFile = "writable"
    /\ result = Ret(FALSE, MsgTmuxMissing)
    /\ Len(auditLog) = 1
    /\ ~auditLog[1].success
    /\ auditLog[1].result = AuditTmuxMissing

\* the reply the poll loop extracts from a capture: the block after the line that
\* echoes the command, else the latest block
ReplyOf(captured) ==
    LET after == extract_reply_after_prompt(captured.message, req.command)
    IN  IF after # <<>> THEN after ELSE extract_tui_reply(captured.message)
IsNewReply(captured) ==
    ReplyOf(captured) # <<>> /\ ReplyOf(captured) # before_reply

\* C15: the poll loop stops at the first iteration whose extracted reply is non-empty
\* and differs from the baseline reply, makes no capture after it and returns that
\* reply; an iteration whose reply is empty or equal to the baseline never ends the
\* loop early.
C15_EarlyExit ==
    /\ [](/\ (pc = "tui_poll" /\ polls > 0) => ~IsNewReply(current)
          /\ (pc = "tui_finish" /\ polls < PollAttempts) => IsNewReply(current)
          /\ (pc = "tui_finish" /\ IsNewReply(current))
                => /\ output = Ret(TRUE, limit_tui_output(ReplyOf(current)))
                   /\ TUI_REPLY_MAX_CHARS = DefaultReplyMaxChars
                        => output.message = ReplyOf(current))
    /\ [][pc = "tui_finish" => (tmuxLog' = tmuxLog /\ pc' = "done")]_vars

\* baseline reply "old"; the third poll capture is the first to show a new reply
C15_Witness ==
    /\ pc = "tui_finish"
    /\ polls = 3
    /\ before_reply = extract_tui_reply(ScreenOld)
    /\ output = Ret(TRUE, extract_tui_reply(ScreenNew))

\* C16: the number of poll captures of a run_tui_command is bounded by the
\* configured attempt count, settings.TUI_WAIT_ATTEMPTS.
C16_PollsWithinConfigured ==
    polls <= TUI_WAIT_ATTEMPTS

C18_BoundedReply ==
    (pc = "done" /\ req.op = "run_tui_command" /\ result.kind = "ret" /\ result.success)
        => /\ result.message # <<>>
           /\ TUI_REPLY_MAX_CHARS > 0 => Len(result.message) <= TUI_REPLY_MAX_CHARS

\* C19: a run_tui_command call in which a capture-pane call (the baseline's or a
\* poll's) ran into its timeout does not return success.
C19_TimeoutFails ==
    (pc = "done" /\ req.op = "run_tui_command" /\ timeouts > 0)
        => ~(result.kind = "ret" /\ result.success)

(***************************************************************************)
(* Properties of the handler tasks (SpecLoop)                              *)
(***************************************************************************)
\* the positions in `keys` of task t's operations
KeysOf(t) == {i \in DOMAIN keys : keys[i].task = t}

\* C14: at most one run_tui_command is in flight against the shared session: the
\* session operations of two overlapping /tui requests never interleave, so nothing
\* of another command comes between one command's cancel/clear step and its Enter.
C14_OneRunInFlight ==
    /\ \A t, u \in Tasks : (InFlight(t) /\ InFlight(u)) => t = u
    /\ \A t \in Tasks : \A i, k \in KeysOf(t) :
        \A j \in DOMAIN keys : (i < j /\ j < k) => keys[j].task = t

\* both requests were queued together and both typed their command into the session
C14_Witness ==
    /\ \A t \in Tasks : tasks[t].pc = "finished"
    /\ \A t \in Tasks : \E i \in KeysOf(t) : keys[i].op = "enter"
    /\ keys[1].task = "t2"

(***************************************************************************)
(* Properties of the audit function (SpecAudit)                            *)
(***************************************************************************)
\* C11: log_command_execution never raises: when the append to the day's audit file
\* fails, the call still returns normally.
C11_AuditNeverRaises ==
    (fn = "audit" /\ applied) => result.kind = "returned"


(***************************************************************************)
(* Properties of the decoration stripping (SpecText)                       *)
(***************************************************************************)
\* C20: the decoration stripping is idempotent: stripping a stripped text again
\* (CSI removal, OSC removal, removal of the control characters other than newline
\* and tab, trim) gives the same text.
C20_StripIdempotent ==
    (fn = "strip_decoration" /\ applied)
        => /\ ret = strip_decoration(arg)
           /\ strip_decoration(ret) = ret

\* a text with an escape sequence of which something is left after the stripping
C20_Witness ==
    /\ fn = "strip_decoration" /\ applied
    /\ \E i \in 1..(Len(arg) - 1) : arg[i] = "<esc>" /\ arg[i + 1] \in {"[", "]"}
    /\ ret # <<>>
    /\ ret # arg
    /\ Len(ret) < Len(arg)


(***************************************************************************)
(* Properties of the Output Extractor (SpecExtract)                        *)
(***************************************************************************)
\* the lines of a text as the extractor sees them: right-trimmed, then trimmed
TrimmedLines(text) == LET lines == RstripLines(text) IN [i \in DOMAIN lines |-> strip(lines[i])]
Openers(lines) == {i \in DOMAIN lines : StartsWithAny(lines[i], OpenMarkers)}
Closers(lines) == {i \in DOMAIN lines : StartsWithAny(lines[i], CloseMarkers)}
Largest(S) == CHOOSE i \in S : \A j \in S : j <= i
Smallest(S) == CHOOSE i \in S : \A j \in S : i <= j

\* the non-empty lines from the opener at `from` up to the next closing line
BlockAt(lines, from) ==
    LET ends == {i \in Closers(lines) : i > from} \cup {Len(lines) + 1}
    IN  SelectSeq(SubSeq(lines, from, Smallest(ends) - 1), LAMBDA ln : ln # <<>>)

\* C21: _extract_tui_reply returns the block of the last line that begins with an
\* assistant-turn marker, up to the next closing line or the end of the text: earlier
\* blocks, promoted or not, are not in the result, no closing line is, and without a
\* marker line the result is empty.
C21_LatestBlockOnly ==
    (fn = "extract_tui_reply" /\ applied)
        => LET lines == TrimmedLines(arg.text)
           IN  /\ Openers(lines) = {} => ret = <<>>
               /\ Openers(lines) # {}
                    => /\ ret = Join(BlockAt(lines, Largest(Openers(lines))), NL)
                       /\ \A ln \in Range(SplitLines(ret)) :
                            ~StartsWithAny(ln, CloseMarkers)

\* two blocks separated by a prompt line: only the second is returned
C21_Witness ==
    /\ fn = "extract_tui_reply" /\ applied
    /\ arg.text = Join(<<<<"<rec>">> \o Chars(" a"), <<"<prompt>">> \o Chars(" hi"),
                         <<"<dot>">> \o Chars(" b "), Chars("  c")>>, NL)
    /\ ret = <<"<dot>">> \o Chars(" b") \o NL \o Chars("c")

\* the marker as _extract_reply_after_prompt looks for it: trimmed, and cut to its
\* trailing 32 characters
MarkerOf(command) == LastN(strip(command), 32)

\* the lines (right-trimmed) in which the marker occurs
MarkerLines(text, command) ==
    LET lines == RstripLines(text)
    IN  {i \in DOMAIN lines : Contains(MarkerOf(command), lines[i])}

\* C22: _extract_reply_after_prompt returns "" when the trimmed and truncated marker
\* occurs in no line; otherwise every line of its result is a line strictly after
\* the last line that contains the marker.
C22_OnlyAfterAnchor ==
    (fn = "extract_reply_after_prompt" /\ applied)
        => LET lines == TrimmedLines(arg.text)
               hits == MarkerLines(arg.text, arg.command)
           IN  /\ hits = {} => ret = <<>>
               /\ hits # {}
                    => \A ln \in Range(SplitLines(ret)) :
                         \E j \in DOMAIN lines : j > Largest(hits) /\ lines[j] = ln

\* a command of 50 characters of which the pane shows the last 32; a reply above the
\* echo and a reply below it
C22_Witness ==
    /\ fn = "extract_reply_after_prompt" /\ applied
    /\ arg.command = LongCommand
    /\ Len(arg.command) > 32
    /\ MarkerLines(arg.text, arg.command) = {2}
    /\ Contains(Chars(" old"), arg.text)
    /\ ret = <<"<rec>">> \o Chars(" ok")

\* a text whose line count and character count do not exceed the caps in force
WithinCaps(text) ==
    /\ TUI_REPLY_MAX_LINES > 0 => Len(SplitLines(text)) <= TUI_REPLY_MAX_LINES
    /\ TUI_REPLY_MAX_CHARS > 0 => Len(text) <= TUI_REPLY_MAX_CHARS

\* C23: on a text within the caps, _limit_tui_output applied to its own result gives
\* that result again.
C23_LimitIdempotent ==
    (fn = "limit_tui_output" /\ applied /\ WithinCaps(arg.text))
        => limit_tui_output(ret) = ret

IsSuffix(t, whole) == Len(t) <= Len(whole) /\ SubSeq(whole, Len(whole) - Len(t) + 1, Len(whole)) = t

\* the text the limiter chooses before the character cap: the latest reply, or
\* without a marker line the last TUI_REPLY_MAX_LINES lines, trimmed
ChosenText(text) ==
    LET lines == RstripLines(text)
        skipped == IF TUI_REPLY_MAX_LINES > 0 /\ Len(lines) > TUI_REPLY_MAX_LINES
                   THEN Len(lines) - TUI_REPLY_MAX_LINES ELSE 0
    IN  IF Openers(TrimmedLines(text)) # {} THEN extract_tui_reply(text)
        ELSE strip(Join(SubSeq(lines, skipped + 1, Len(lines)), NL))

\* C24: _limit_tui_output never returns an empty text: it returns "(no output)" when
\* the chosen text is empty; otherwise a text without a marker line gives its last
\* TUI_REPLY_MAX_LINES lines, and a chosen text longer than TUI_REPLY_MAX_CHARS is cut
\* to its trailing TUI_REPLY_MAX_CHARS characters.
C24_TailKept ==
    (fn = "limit_tui_output" /\ applied)
        => LET chosen == ChosenText(arg.text)
               long == TUI_REPLY_MAX_CHARS > 0 /\ Len(chosen) > TUI_REPLY_MAX_CHARS
           IN  /\ ret # <<>>
               /\ strip(ret) = ret
               /\ chosen = <<>> <=> (ret = NoOutput /\ chosen # NoOutput)
               /\ (chosen # <<>> /\ ~long) => ret = chosen
               /\ long => /\ IsSuffix(ret, chosen)
                          /\ Len(ret) <= TUI_REPLY_MAX_CHARS
                          /\ \A k \in (Len(ret) + 1)..TUI_REPLY_MAX_CHARS :
                                IsSpace(chosen[Len(chosen) - k + 1])

\* one line of 18 characters without a marker under a cap of 8 characters
C24_Witness ==
    /\ fn = "limit_tui_output" /\ applied
    /\ TUI_REPLY_MAX_LINES = 1 /\ TUI_REPLY_MAX_CHARS = 8
    /\ arg.text = Chars("word one two three")
    /\ ret = Chars("wo three")

\* the text made of the lines strictly after the last line that contains the marker
TextAfterMarker(text, command) ==
    LET lines == RstripLines(text)
    IN  Join(SubSeq(lines, Largest(MarkerLines(text, command)) + 1, Len(lines)), NL)

\* C29: when the marker occurs in the text, _extract_reply_after_prompt gives what
\* _extract_tui_reply gives on the lines strictly after the last line with the marker.
C29_SameScan ==
    (/\ fn = "extract_reply_after_prompt" /\ applied
     /\ MarkerOf(arg.command) # <<>>
     /\ MarkerLines(arg.text, arg.command) # {})
        => ret = extract_tui_reply(TextAfterMarker(arg.text, arg.command))


(***************************************************************************)
(* Properties of the session driver (Spec)                                 *)
(***************************************************************************)
OpsOf(calls) == [i \in DOMAIN calls |-> calls[i].op]
CountOp(calls, op) == Cardinality({i \in DOMAIN calls : calls[i].op = op})

\* what _ensure_tui_session does in the present state under each answer of tmux
EnsureCases ==
    \A has \in HasEnv, created \in NewEnv, pipe \in TmuxEnv, born \in PaneModes,
       late \in BOOLEAN :
        LET e == ensure_tui_session("ok", has, created, pipe, born, late)
        IN  /\ has = "exit0"
                => /\ CountOp(e.calls, "new-session") = 0
                   /\ e.out.kind = "ret" => e.out.success
            /\ has \in {"exit1", "timeout"}
                => /\ CountOp(e.calls, "new-session") = 1
                   /\ created # "exit0"
                        => /\ e.out.kind = "ret" => ~e.out.success
                           /\ OpsOf(e.calls) = <<"has-session", "new-session">>

\* C25: _ensure_tui_session issues no new-session and returns success when
\* has-session reports the session; it issues new-session exactly once when
\* has-session does not; when that new-session fails it returns failure without a
\* second attempt, and run_tui_command then ends without send-keys or capture-pane.
C25_EnsureOnce ==
    /\ [](/\ pc = "tui_ensure" => EnsureCases
          /\ CountOp(tmuxLog, "new-session") <= 1
          /\ (CountOp(tmuxLog, "send-keys") + CountOp(tmuxLog, "capture-pane") > 0)
                => /\ session # "Absent"
                   /\ \/ SubSeq(OpsOf(tmuxLog), 1, 2) = <<"has-session", "pipe-pane">>
                      \/ SubSeq(OpsOf(tmuxLog), 1, 3)
                            = <<"has-session", "new-session", "pipe-pane">>)
    /\ [][pc = "tui_ensure"
            => /\ (session # "Absent" /\ pc' = "tui_baseline")
                    => OpsOf(tmuxLog') = <<"has-session", "pipe-pane">>
               /\ (session = "Absent" /\ pc' = "tui_baseline")
                    => /\ OpsOf(tmuxLog') = <<"has-session", "new-session", "pipe-pane">>
                       /\ session' # "Absent"
               /\ pc' # "tui_baseline"
                    => /\ pc' = "done"
                       /\ CountOp(tmuxLog', "send-keys") = 0
                       /\ CountOp(tmuxLog', "capture-pane") = 0]_vars

\* an absent session whose creation fails: one new-session, a failure result, and
\* neither keystrokes nor a capture
C25_Witness ==
    /\ pc = "done"
    /\ req.op = "run_tui_command"
    /\ session = "Absent"
    /\ OpsOf(tmuxLog) = <<"has-session", "new-session">>
    /\ result = Ret(FALSE, MsgStartFailed \o ErrTmux)

\* the send-keys calls of the call in progress, in the order they were made
KeysSent == SelectSeq(tmuxLog, LAMBDA c : c.op = "send-keys")
KeyOrder == <<"-X cancel", "C-u", "-l", "Enter">>

\* C26: the send-keys calls of a run_tui_command are, in this order, cancel of the
\* copy mode, C-u, the command as literal text (-l) and Enter as a call of its own;
\* the sequence is cut short only by an exception of a tmux call, and the polling
\* starts after all four.
C26_FourKeysInOrder ==
    /\ Len(KeysSent) <= 4
    /\ \A i \in DOMAIN KeysSent :
        /\ KeysSent[i].flag = KeyOrder[i]
        /\ KeysSent[i].text = IF i = 3 THEN req.command ELSE <<>>
    /\ pc \in {"tui_poll", "tui_finish"} => Len(KeysSent) = 4
    /\ (pc = "done" /\ Len(KeysSent) \in 1..3)
            => result \in {Ret(FALSE, MsgTmuxMissing), Ret(FALSE, MsgError)}
                \/ result.kind = "raised"
    /\ \A i, j \in DOMAIN tmuxLog :
        (tmuxLog[i].op = "send-keys" /\ i < j /\ tmuxLog[j].op = "capture-pane")
            => Len(KeysSent) = 4 /\ \E k \in DOMAIN tmuxLog :
                                        tmuxLog[k].flag = "Enter" /\ k < j

\* a call that went through: four send-keys, the third with the command
C26_Witness ==
    /\ pc = "done"
    /\ req.op = "run_tui_command"
    /\ result.kind = "ret" /\ result.success
    /\ Len(KeysSent) = 4
    /\ KeysSent[3] = Call("send-keys", "-l", Chars("hi"))
    /\ KeysSent[4] = Call("send-keys", "Enter", <<>>)

\* the first capture-pane call failed and tmux said the pane has no alternate screen
NoAltFailure(cp) ==
    cp.kind = "cp" /\ cp.returncode # 0 /\ Contains(Chars("no alternate screen"), cp.stderr)

\* what _capture_tui_raw does in the present state under each answer of tmux
CaptureCases ==
    \A first \in CaptureResults :
    \A second \in SecondResults(first) :
    \A log_tail \in TailsRead(first, second) :
        LET calls == CaptureCalls(first)
            used == IF Len(calls) = 2 THEN second ELSE first
            got == capture_tui_raw(first, second, log_tail)
        IN  /\ Len(calls) \in 1..2
            /\ calls[1] = Call("capture-pane", "-a", <<>>)
            /\ Len(calls) = 2 <=> NoAltFailure(first)
            /\ Len(calls) = 2 => calls[2] = Call("capture-pane", "", <<>>)
            /\ (used.kind = "cp" /\ used.returncode = 124)
                    => got = Ret(FALSE, MsgCaptureTimeout)
            /\ (used.kind = "cp" /\ used.returncode \notin {0, 124})
                    => got = Ret(FALSE, MsgCaptureFailed \o strip(used.stderr))

\* C27: _capture_tui_raw makes one capture-pane call with -a, and a second one
\* without -a exactly when the first failed with "no alternate screen"; when the call
\* whose result it uses timed out it returns the timeout failure, neither success nor
\* the generic capture failure.
C27_CaptureRetryAndTimeout ==
    /\ [](/\ pc \in {"tui_baseline", "tui_poll"} => CaptureCases
          /\ ~StartsWith(MsgCaptureTimeout, MsgCaptureFailed))
    /\ [][(pc = "tui_baseline" \/ pc = "tui_poll")
            => (LET made == SubSeq(tmuxLog', Len(tmuxLog) + 1, Len(tmuxLog'))
                IN /\ Len(made) \in 1..2
                   /\ \A i \in DOMAIN made : made[i].op = "capture-pane"
                   /\ made[1].flag = "-a"
                   /\ Len(made) = 2 => made[2].flag = "" /\ session = "Plain"
                   /\ (pc = "tui_poll" /\ timeouts' > timeouts /\ pc' # "done")
                        => current' = Ret(FALSE, MsgCaptureTimeout))]_vars

\* a pane without alternate screen: the poll made two captures, the second timed out
C27_Witness ==
    /\ pc = "tui_poll"
    /\ polls = 1
    /\ session = "Plain"
    /\ timeouts = 1
    /\ current = Ret(FALSE, MsgCaptureTimeout)
    /\ Len(tmuxLog) >= 2
    /\ tmuxLog[Len(tmuxLog) - 1] = Call("capture-pane", "-a", <<>>)
    /\ tmuxLog[Len(tmuxLog)] = Call("capture-pane", "", <<>>)


(***************************************************************************)
(* Properties of the session lifecycle (SpecSession)                       *)
(***************************************************************************)
\* a step that is a whole stop_tui_session call
StopStep == pc = "idle" /\ pc' = "done" /\ req'.op = "stop_tui_session"

\* C28: the session goes from running to absent only in a stop_tui_session call; a
\* stop_tui_session on an absent session leaves it absent, returns a failure and
\* appends one audit record with success = False.
C28_StopLifecycle ==
    [][/\ (session # "Absent" /\ session' = "Absent") => StopStep
       /\ (StopStep /\ session = "Absent")
            => /\ session' = "Absent"
               /\ result'.kind = "ret"
               /\ ~result'.success
               /\ Len(auditLog') = 1
               /\ ~auditLog'[1].success]_vars

(***************************************************************************)
(* Properties of the session binding (SpecBind)                            *)
(***************************************************************************)
\* the identifier pinned for caller c in the bindings file b, <<>> when none is
Binding(b, c) == DictGet(b, str_int(c))

\* the step is the handler `op` answering one message
HandlerStep(op) == pc = "idle" /\ pc' = "done" /\ req'.op = op

\* the step is a pin that was confirmed to its caller
PinStep ==
    /\ HandlerStep("cmd_session")
    /\ result'.kind = "answer"
    /\ StartsWith(result'.text, MsgPinned)

\* the step is a one-shot run that started the CLI
RunStep == HandlerStep("cmd_run") /\ execLog' # <<>>

\* the words of a /run message
RunWords(text) == split_ws(text, 3)

\* C30: SessionBinding. A confirmed pin by caller c makes c's binding the identifier
\* it announces and leaves every other caller's binding as it was; no other step
\* changes a binding, a one-shot run in particular; a plain one-shot run by c
\* passes c's current binding to the CLI, a run with --session <id> passes <id>,
\* and a run with --continue passes no identifier and asks to continue.
C30_SessionBinding ==
    [][/\ PinStep =>
            (/\ result'.text = MsgPinned \o Binding(bindings', req'.user_id)
             /\ Binding(bindings', req'.user_id) # <<>>
             /\ \A d \in Callers \ {req'.user_id} :
                    Binding(bindings', d) = Binding(bindings, d))
       /\ ~PinStep => bindings' = bindings
       /\ RunStep =>
            (LET words == RunWords(req'.text)
                 call == execLog'[1]
             IN  IF words[2] = Chars("--session")
                 THEN call.session_id = words[3] /\ ~call.use_continue
                 ELSE IF words[2] = Chars("--continue")
                 THEN call.session_id = <<>> /\ call.use_continue
                 ELSE /\ call.session_id = Binding(bindings, req'.user_id)
                      /\ ~call.use_continue)
      ]_vars

(***************************************************************************)
(* Properties of the sandbox-root rule (SpecPath)                          *)
(***************************************************************************)
\* C31: the root rule admits only the root directory and its descendants by path
\* components. A path outside the root's subtree whose text merely begins with the
\* root's text is not allowed by the root rule, so is_path_allowed denies it when a
\* prohibited pattern matches it.
C31_RootByComponents ==
    (/\ fn = "path" /\ applied
     /\ SANDBOX_ENABLED
     /\ ~InsideDir(NormalizedArg, NormalizedRoot)
     /\ StartsWith(NormalizedArg, NormalizedRoot)
     /\ \E i \in DOMAIN PROHIBITED_PATHS :
            ProhibitedHit(NormalizedArg, PROHIBITED_PATHS[i]))
        => ~ret

(***************************************************************************)
(* Properties of the chat command handlers (SpecBot)                       *)
(***************************************************************************)
\* a handler is answering, or has answered, a caller is_user_allowed refuses
RefusedCaller == pc # "idle" /\ ~is_user_allowed(req.user_id)

\* nothing of the executor has run in the call: no tmux invocation, no subprocess,
\* no file access, no audit record, no Gatekeeper decision on a command or a path
ExecutorUntouched ==
    /\ tmuxLog = <<>>
    /\ execLog = <<>>
    /\ fsLog = <<>>
    /\ auditLog = <<>>
    /\ accepted = {}

\* C32: no executor operation is performed for a caller for whom is_user_allowed is
\* false. Every handler checks is_user_allowed first; when it fails the handler has
\* returned with the refusal as its only answer, the executor has not been called,
\* no audit record has been written, and the step leaves the session bindings and
\* the tmux session as they were.
C32_CallerCheckedFirst ==
    /\ [](RefusedCaller =>
            /\ pc = "done"
            /\ result = Answer(MsgNoAccess)
            /\ ExecutorUntouched)
    /\ [][(pc' # "idle" /\ ~is_user_allowed(req'.user_id)) =>
            (bindings' = bindings /\ session' = session)]_vars

\* a refused caller asked to stop the session while a session runs and a pin exists
C32_Witness ==
    /\ RefusedCaller
    /\ req.op = "cmd_tui_stop"
    /\ session # "Absent"
    /\ bindings # NoBindings

=============================================================================
